---- MODULE Spec2Model ----
(***************************************************************************)
(* Copy-trade bot (RenZ1z/copytrade-base).                                 *)
(*                                                                         *)
(* Spec       the block-driven pipeline of src/unnamed/part_000            *)
(*            (handlePendingTx, resolveTokenOut, handleSwap, the position  *)
(*            ledger) driving executeCopyTrade / executeCopySell of        *)
(*            src/src/trader.ts (lines 352-514).                           *)
(* SpecNonce  the nonce manager of src/src/trader.ts (lines 248-350):      *)
(*            acquireNonceLock, releaseNonceLock, getNextNonce, resetNonce *)
(*            and the submissions of sendAndWait / checkAndApproveToken.   *)
(* SpecNonceLive  the nonce manager with a signer.getNonce that may reject *)
(*            and weak fairness on the settling of a pending getNonce.     *)
(* SpecIndex  handlePendingTx of src/src/index.ts (lines 67-324), the      *)
(*            mempool-driven handler with its deferred receipt path.       *)
(* SpecDecoder decodeSwap of src/src/decoder.ts (lines 1-95) applied to    *)
(*            calldata strings and destinations drawn from samples.        *)
(* SpecWs     connectWS of src/unnamed/part_000 (lines 294-367): the       *)
(*            sockets, the reconnection timer and the heartbeats, with    *)
(*            weak fairness on the passing of time, the timer callback    *)
(*            and the close event that follows an error event.            *)
(* SpecResolve resolveTokenOut of src/unnamed/part_000 (lines 108-141)     *)
(*            one await at a time: the receipt polling loop and the scan   *)
(*            of the receipt's logs, with weak fairness on the settling of *)
(*            each await and of the timers.                                *)
(* SpecBlocks the message handler of connectWS in src/unnamed/part_000     *)
(*            (lines 311-355): block notifications, the awaited fetch of   *)
(*            each full block and the calls of handlePendingTx.            *)
(* SpecDisk   loadPositions and savePositions of src/unnamed/part_000      *)
(*            (lines 45-74) applied to files and ledgers drawn from        *)
(*            bounded sets.                                                *)
(* SpecWsBeat SpecWs with weak fairness on the ticks of the heartbeat       *)
(*            intervals (lines 363-366).                                   *)
(* SpecCalc   the balance guard of handleSwap (part_000 lines 206-216) and *)
(*            the sizing of executeCopyTrade and executeCopySell           *)
(*            (trader.ts lines 360-362, 428-441) on bounded inputs.        *)
(* SpecLedger the position ledger of src/unnamed/part_000 (lines 45-97)    *)
(*            on its own: addPosition, removePosition, a write of the      *)
(*            positions file that may fail, and a restart.  Spec takes     *)
(*            every write of the file to succeed.                          *)
(***************************************************************************)
EXTENDS Integers, Sequences, FiniteSets, TLC

---------------------------------------------------------------------------
(* Bounds of the model *)
MaxHandlers == 2
MaxTicks == 1
BuyAmount == 2
MaxCallers == 3
MaxExternal == 1
MaxDeliveries == 2
MaxSockets == 3

(* Program constants *)
COOLDOWN_MS == 10000
INDEX_COOLDOWN_MS == 30000
ETH_PRICE_ESTIMATE == 2000
BufferPct == 105
DefaultRetries == 3
DefaultRetryDelayMs == 5000
RECONNECT_MS == 3000
PpmScale == 1000000

(* Configuration (.env) and the unit balances are counted in: 1e-6 ETH *)
TRADE_AMOUNT_USD == 5
UnitsPerEth == 1000000

TickMs == COOLDOWN_MS
StartMs == 10 * COOLDOWN_MS

TARGET_WALLETS == {"w1", "w2"}
Tokens == {"T1", "T2"}
WETH == "weth"
ETH_ADDRESS == "0xeeee"
NoToken == "none"
Pool == "pool"
NullNonce == 0 - 1
Callers == 1..MaxCallers

VARIABLES
  now,            \* Date.now()
  processedTxs,   \* Set<string> of handled transaction hashes
  lastTrade,      \* Map wallet -> time of the last buy that passed the gate
  openPositions,  \* Map wallet -> Set<token> (insertion ordered)
  file,           \* content of data/positions.json
  tokenBal,       \* on-chain token balances of the managed account
  handlers,       \* per transaction hash, the handler tasks started for it
  loaded,         \* the ledger loadPositions returned at startup
  currentNonce,   \* trader.ts: cached next nonce, NullNonce when unset
  nonceLock,      \* trader.ts: the lock flag
  nonceLockQueue, \* trader.ts: resolvers of the waiting callers, in push order
  callers,        \* the tasks calling getNextNonce and submitting
  usedNonces,     \* nonces of the account the node has seen (mined or pooled)
  arrival,        \* history: callers in the order they called acquireNonceLock
  granted,        \* history: callers in the order they were given the lock
  handed,         \* history: <<caller, nonce, resets so far>> per getNextNonce
  resets,         \* history: number of resetNonce calls
  indexTasks,     \* index.ts: per hash, the handlePendingTx runs started
  pendingTrades,  \* index.ts: Map of the hashes awaiting confirmation (keys)
  confirmedCalls, \* history: hashes handleConfirmedTx was invoked for
  swapTx,         \* decoder.ts: the transaction handed to decodeSwap
  swapInfo,       \* decoder.ts: what decodeSwap returned
  sockets,        \* connectWS: the WebSocket objects created, in order
  timers,         \* connectWS: pending setTimeout(connectWS, 3000) timers
  heartbeats,     \* connectWS: sockets whose heartbeat interval still runs
  poll,           \* resolveTokenOut: one deferred resolution, step by step
  inflight,       \* ws.on("message"): block notifications and their fetches
  dispatched,     \* ws.on("message"): handlePendingTx calls, in call order
  feed,           \* ws.on("message"): the subscription and its error log
  disk,           \* loadPositions / savePositions: the file, a ledger, a result
  calc            \* the amounts of the balance guard and of the two trades

pipelineVars == <<openPositions, file, tokenBal, handlers, loaded>>

nonceVars == <<currentNonce, nonceLock, nonceLockQueue, callers, usedNonces,
               arrival, granted, handed, resets>>

resolverVars == <<pendingTrades, confirmedCalls>>

decoderVars == <<swapTx, swapInfo>>

wsVars == <<sockets, timers, heartbeats>>

pollVars == <<poll>>

blockVars == <<inflight, dispatched, feed>>

pureVars == <<disk, calc>>

sideVars == <<resolverVars, decoderVars, wsVars, pollVars, blockVars,
              pureVars>>

vars == <<now, processedTxs, lastTrade, pipelineVars, nonceVars, indexTasks,
          sideVars>>

(* An optional field that is not set *)
Absent == "absent"

NotCalled ==
  [called |-> FALSE, threw |-> FALSE, isSwap |-> FALSE, protocol |-> Absent,
   selector |-> Absent, tokenIn |-> Absent, tokenOut |-> Absent,
   amountIn |-> Absent]

ResolverIdle == pendingTrades = {} /\ confirmedCalls = {}

DecoderIdle == swapTx = [data |-> "", to |-> ""] /\ swapInfo = NotCalled

WsIdle == sockets = <<>> /\ timers = {} /\ heartbeats = {}

NotPolled ==
  [pc |-> "unseen", attempt |-> 0, fetches |-> 0, waitedMs |-> 0,
   receipt |-> <<>>, found |-> FALSE, ret |-> Absent, calls |-> <<>>,
   deliveries |-> 0]

PollIdle == poll = NotPolled

FeedIdle == [active |-> FALSE, logged |-> 0]

BlocksIdle == inflight = <<>> /\ dispatched = <<>> /\ feed = FeedIdle

PureIdle == disk = <<>> /\ calc = <<>>

SideIdle ==
  /\ ResolverIdle /\ DecoderIdle /\ WsIdle /\ PollIdle /\ BlocksIdle
  /\ PureIdle

---------------------------------------------------------------------------
Range(s) == {s[i] : i \in DOMAIN s}

Count(s, x) == Cardinality({i \in DOMAIN s : s[i] = x})

(* The transactions a block may carry: hash, sender and what decodeSwap
   makes of the input (isSwap, tokenIn and tokenOut, or none). *)
TxSet ==
  { [hash |-> "a", from |-> "w1", isSwap |-> TRUE,  tokenIn |-> WETH,    tokenOut |-> "T1"],
    [hash |-> "c", from |-> "w2", isSwap |-> TRUE,  tokenIn |-> WETH,    tokenOut |-> "T1"],
    [hash |-> "d", from |-> "w1", isSwap |-> TRUE,  tokenIn |-> NoToken, tokenOut |-> NoToken],
    [hash |-> "f", from |-> "w1", isSwap |-> TRUE,  tokenIn |-> "T1",    tokenOut |-> WETH],
    [hash |-> "g", from |-> "w1", isSwap |-> FALSE, tokenIn |-> NoToken, tokenOut |-> NoToken] }

Hashes == {tx.hash : tx \in TxSet}

(* Receipt logs: topic0, emitting contract, and the from / to topics. *)
WithdrawalLog == [topic |-> "Withdrawal", address |-> WETH, src |-> Pool, dst |-> Pool]
TransferLog(tok, a, b) == [topic |-> "Transfer", address |-> tok, src |-> a, dst |-> b]

ReceiptSet ==
  { <<>>,
    <<WithdrawalLog>>,
    <<TransferLog("T1", "w1", Pool), WithdrawalLog>>,
    <<TransferLog("T1", Pool, "w1")>>,
    <<TransferLog("T2", Pool, "w1")>> }

(* What data/positions.json may hold at startup: nothing, or the positions
   an earlier run left open (the account still holds their tokens, or
   holds none of them any more). *)
StartFiles ==
  { <<>>, [w \in {"w1"} |-> <<"T1">>] }

---------------------------------------------------------------------------
(* Position ledger *)

RECURSIVE Dedup(_)
(* new Set(tokens): the elements in first-insertion order *)
Dedup(s) ==
  IF s = <<>> THEN <<>>
  ELSE LET init == Dedup(SubSeq(s, 1, Len(s) - 1))
           last == s[Len(s)]
       IN IF last \in Range(init) THEN init ELSE Append(init, last)

loadPositions(f) ==
  [w \in TARGET_WALLETS |-> IF w \in DOMAIN f THEN Dedup(f[w]) ELSE <<>>]

savePositionsAll(map) == map

savePositions(map) ==
  [w \in {x \in DOMAIN map : Len(map[x]) > 0} |-> map[w]]

AddedPosition(map, whale, token) ==
  [map EXCEPT ![whale] = IF token \in Range(@) THEN @ ELSE Append(@, token)]

RemovedPosition(map, whale, token) ==
  [map EXCEPT ![whale] = SelectSeq(@, LAMBDA x : x # token)]

getPositions(whale) == openPositions[whale]

isEth(token) == token = WETH \/ token = ETH_ADDRESS

---------------------------------------------------------------------------
(* resolveTokenOut on a receipt that was found *)

HasWithdrawal(receipt) ==
  \E i \in DOMAIN receipt :
    receipt[i].topic = "Withdrawal" /\ receipt[i].address = WETH

RelevantLogs(receipt, whaleFrom) ==
  SelectSeq(receipt, LAMBDA log : log.topic = "Transfer" /\ log.dst = whaleFrom)

resolveTokenOutFirst(receipt, whaleFrom) ==
  IF HasWithdrawal(receipt) THEN WETH
  ELSE LET rel == RelevantLogs(receipt, whaleFrom)
       IN IF Len(rel) = 0 THEN NoToken ELSE rel[1].address

resolveTokenOut(receipt, whaleFrom) ==
  IF HasWithdrawal(receipt) THEN WETH
  ELSE LET rel == RelevantLogs(receipt, whaleFrom)
       IN IF Len(rel) = 0 THEN NoToken ELSE rel[Len(rel)].address

---------------------------------------------------------------------------
(* executeCopySell sizing *)

SellBalance(totalBalance, fractionPpm) ==
  IF fractionPpm >= PpmScale THEN totalBalance
  ELSE (totalBalance * fractionPpm) \div PpmScale

(* handleSwap passes no fraction: the default 1.0 applies *)
SellFractionPpm == PpmScale

---------------------------------------------------------------------------
(* Cooldown gate of the buy path *)

CooldownNever(lastTime, t) == FALSE

CooldownActive(lastTime, t) == t - lastTime < COOLDOWN_MS

---------------------------------------------------------------------------
(* Handler tasks.  A task is named by its transaction hash and its rank
   among the tasks started for that hash. *)

HandlerIds == {<<x, k>> : x \in Hashes, k \in 1..MaxHandlers}

Live == {id \in HandlerIds : id[2] <= Len(handlers[id[1]])}

H(id) == handlers[id[1]][id[2]]

NumHandlers == Cardinality(Live)

SetH(id, rec) == [handlers EXCEPT ![id[1]][id[2]] = rec]

NewHandler(tx) ==
  [hash |-> tx.hash, from |-> tx.from, pc |-> "new",
   tokenIn |-> tx.tokenIn, tokenOut |-> tx.tokenOut,
   deferred |-> FALSE, receipt |-> <<>>, found |-> FALSE,
   side |-> "none", gate |-> "none", result |-> "none", balance |-> 0,
   startedAt |-> 0, positions |-> <<>>, idx |-> 0,
   sellAmt |-> 0, attempt |-> 0, sleptMs |-> 0, sells |-> <<>>,
   trace |-> <<>>]

(* The synchronous prefix of handleSwap: up to its first await. *)
EnterHandleSwap(rec, tokenOut, last, t) ==
  LET r0 == [rec EXCEPT !.tokenOut = tokenOut, !.startedAt = t] IN
  IF isEth(tokenOut)
  THEN LET positions == getPositions(rec.from) IN
       IF Len(positions) = 0
       THEN [h |-> [r0 EXCEPT !.side = "sell", !.pc = "done",
                              !.trace = Append(@, "notifySellDetected")],
             last |-> last]
       ELSE [h |-> [r0 EXCEPT !.side = "sell", !.positions = positions,
                              !.idx = 1, !.pc = "sellBalanceOf",
                              !.trace = Append(@, "executeCopySell")],
             last |-> last]
  ELSE IF CooldownActive(last[rec.from], t)
       THEN [h |-> [r0 EXCEPT !.side = "buy", !.gate = "blocked", !.pc = "done"],
             last |-> last]
       ELSE [h |-> [r0 EXCEPT !.side = "buy", !.gate = "passed",
                              !.pc = "getBalance",
                              !.trace = Append(@, "getBalance")],
             last |-> [last EXCEPT ![rec.from] = t]]

(* connectWS dispatching one transaction of a block to handlePendingTx,
   up to the handler's first await. *)
handlePendingTx(tx) ==
  /\ NumHandlers < MaxHandlers
  /\ IF \/ tx.from \notin TARGET_WALLETS
        \/ tx.hash \in processedTxs
        \/ ~tx.isSwap
     THEN UNCHANGED vars
     ELSE /\ processedTxs' = processedTxs \cup {tx.hash}
          /\ IF tx.tokenOut # NoToken
             THEN LET e == EnterHandleSwap(NewHandler(tx), tx.tokenOut, lastTrade, now)
                  IN /\ handlers' = [handlers EXCEPT ![tx.hash] = Append(@, e.h)]
                     /\ lastTrade' = e.last
             ELSE /\ handlers' = [handlers EXCEPT ![tx.hash] =
                        Append(@, [NewHandler(tx) EXCEPT !.pc = "resolve",
                                                         !.deferred = TRUE])]
                  /\ UNCHANGED lastTrade
          /\ UNCHANGED <<now, openPositions, file, tokenBal, loaded>>
          /\ UNCHANGED <<nonceVars, indexTasks, sideVars>>

(* The timer fired and resolveTokenOut returned: ~found when the polling
   budget ran out; otherwise the scan of the receipt, then handleSwap. *)
ResolveTokenOut(id, found, receipt) ==
  /\ H(id).pc = "resolve"
  /\ ~found => receipt = <<>>
  /\ LET h == [H(id) EXCEPT !.receipt = receipt, !.found = found]
         tokenOut == IF ~found THEN NoToken
                     ELSE resolveTokenOut(receipt, h.from)
     IN IF tokenOut = NoToken
        THEN /\ handlers' = SetH(id, [h EXCEPT !.pc = "done"])
             /\ UNCHANGED lastTrade
        ELSE LET e == EnterHandleSwap(h, tokenOut, lastTrade, now)
             IN /\ handlers' = SetH(id, e.h)
                /\ lastTrade' = e.last
  /\ UNCHANGED <<now, processedTxs, openPositions, file, tokenBal, loaded>>
  /\ UNCHANGED <<nonceVars, indexTasks, sideVars>>

Tick ==
  /\ now < StartMs + MaxTicks * TickMs
  /\ now' = now + TickMs
  /\ UNCHANGED <<processedTxs, lastTrade, pipelineVars, nonceVars, indexTasks, sideVars>>

(* The nonce manager as the module leaves it at load time. *)
NonceIdle ==
  /\ currentNonce = NullNonce
  /\ nonceLock = FALSE
  /\ nonceLockQueue = <<>>
  /\ callers = [c \in Callers |->
                  [pc |-> "idle", kind |-> "none", nonce |-> NullNonce,
                   waited |-> FALSE]]
  /\ usedNonces = {}
  /\ arrival = <<>>
  /\ granted = <<>>
  /\ handed = <<>>
  /\ resets = 0

Init ==
  /\ now = StartMs
  /\ processedTxs = {}
  /\ lastTrade = [w \in TARGET_WALLETS |-> 0]
  /\ file \in StartFiles
  /\ openPositions = loadPositions(file)
  /\ loaded = openPositions
  /\ \E held \in BOOLEAN :
       tokenBal = [t \in Tokens |->
                    IF held /\ \E w \in TARGET_WALLETS : t \in Range(openPositions[w])
                    THEN BuyAmount ELSE 0]
  /\ handlers = [x \in Hashes |-> <<>>]
  /\ NonceIdle
  /\ indexTasks = <<>>
  /\ SideIdle

---------------------------------------------------------------------------
(* Buy path of handleSwap *)

LedgerAlwaysAdds(map, whale, token, status, hasTxHash) ==
  AddedPosition(map, whale, token)

LedgerAfterBuy(map, whale, token, status, hasTxHash) ==
  IF status = "success" /\ hasTxHash THEN AddedPosition(map, whale, token) ELSE map

(* requiredEth = (TRADE_AMOUNT_USD / 2000) * 1.05, in balance units *)
RequiredUnits ==
  (TRADE_AMOUNT_USD * BufferPct * UnitsPerEth) \div (ETH_PRICE_ESTIMATE * 100)

(* What getBalance may answer: just below the requirement, or just at it. *)
Balances == {RequiredUnits - 1, RequiredUnits}

BalanceBelowUnbuffered(balance) ==
  balance < (TRADE_AMOUNT_USD * UnitsPerEth) \div ETH_PRICE_ESTIMATE

BalanceInsufficient(balance) == balance < RequiredUnits

(* getBalance returns: the balance guard, then executeCopyTrade is called. *)
GetBalance(id, balance) ==
  /\ H(id).pc = "getBalance"
  /\ handlers' = SetH(id,
       IF ~BalanceInsufficient(balance)
       THEN [H(id) EXCEPT !.pc = "executeCopyTrade", !.balance = balance,
                          !.trace = Append(@, "executeCopyTrade")]
       ELSE [H(id) EXCEPT !.pc = "done", !.balance = balance,
                          !.trace = Append(@, "notifyInsufficientBalance")])
  /\ UNCHANGED <<now, processedTxs, lastTrade, openPositions, file, tokenBal, loaded>>
  /\ UNCHANGED <<nonceVars, indexTasks, sideVars>>

TradeCallsRetrying(outcome) ==
  IF outcome = "noQuote" THEN <<"quote">>
  ELSE IF outcome = "revert" THEN <<"quote", "send", "quote", "send">>
  ELSE <<"quote", "send">>

(* The requests executeCopyTrade makes: price/quote, then one sendAndWait. *)
TradeCalls(outcome) ==
  IF outcome = "noQuote" THEN <<"quote">> ELSE <<"quote", "send">>

NotifiesBeforePersisting(status) ==
  IF status = "success" THEN <<"notifyBuyExecuted", "addPosition">>
  ELSE <<"notifyBuyFailed">>

(* handleSwap after executeCopyTrade returned: addPosition and then
   notifyBuyExecuted, or notifyBuyFailed. *)
BuyResultSteps(status) ==
  IF status = "success" THEN <<"addPosition", "notifyBuyExecuted">>
  ELSE <<"notifyBuyFailed">>

(* executeCopyTrade returns, then the handler's result handling:
   addPosition + savePositions, then the notification.  Outcomes:
   "noQuote"  no liquidity, no transaction in the quote, or a request error;
   "revert"   the submitted swap reverted or the submission threw;
   "success"  receipt with status 1. *)
ExecuteCopyTrade(id, outcome) ==
  /\ H(id).pc = "executeCopyTrade"
  /\ LET h == H(id)
         status == IF outcome = "success" THEN "success" ELSE "failed"
         map == LedgerAfterBuy(openPositions, h.from, h.tokenOut, status,
                               outcome = "success")
         calls == TradeCalls(outcome)
     IN /\ openPositions' = map
        /\ file' = IF status = "success" THEN savePositions(map) ELSE file
        /\ tokenBal' = IF outcome = "success"
                       THEN [tokenBal EXCEPT ![h.tokenOut] = @ + BuyAmount]
                       ELSE tokenBal
        /\ handlers' = SetH(id,
             [h EXCEPT !.pc = "done", !.result = status,
                       !.trace = @ \o calls \o BuyResultSteps(status)])
  /\ UNCHANGED <<now, processedTxs, lastTrade, loaded, nonceVars, indexTasks, sideVars>>

---------------------------------------------------------------------------
(* Sell path of handleSwap: executeCopySell once per entry of the snapshot *)

RemovesOnlyOnSuccess(status) == status = "success"

(* The branches of handleSwap that call removePosition. *)
RemovesPosition(status) == status \in {"success", "skipped"}

(* handleSwap lines 172-193 after executeCopySell returned `status`. *)
AfterSell(id, status, bal) ==
  LET h == H(id)
      tok == h.positions[h.idx]
      removes == RemovesPosition(status)
      map == IF removes THEN RemovedPosition(openPositions, h.from, tok)
             ELSE openPositions
      ev == CASE status = "success" -> <<"removePosition", "notifySellExecuted">>
              [] status = "skipped" -> <<"removePosition">>
              [] OTHER -> <<"notifySellFailed">>
      more == h.idx < Len(h.positions)
  IN /\ openPositions' = map
     /\ file' = IF removes THEN savePositions(map) ELSE file
     /\ tokenBal' = bal
     /\ handlers' = SetH(id,
          IF more
          THEN [h EXCEPT !.idx = @ + 1, !.pc = "sellBalanceOf", !.attempt = 0,
                         !.trace = @ \o ev \o <<"executeCopySell">>]
          ELSE [h EXCEPT !.pc = "done", !.attempt = 0,
                         !.trace = @ \o ev])
     /\ UNCHANGED <<now, processedTxs, lastTrade, loaded>>

(* executeCopySell: getEthPrice and balanceOf return; sizing; the first
   pass of the retry loop starts. *)
SellBalanceOf(id) ==
  /\ H(id).pc = "sellBalanceOf"
  /\ UNCHANGED <<nonceVars, indexTasks, sideVars>>
  /\ LET h == H(id)
         tok == h.positions[h.idx]
         totalBalance == tokenBal[tok]
         sellBalance == SellBalance(totalBalance, SellFractionPpm)
     IN IF totalBalance = 0 \/ sellBalance = 0
        THEN AfterSell(id, "skipped", tokenBal)
        ELSE /\ handlers' = SetH(id,
                  [h EXCEPT !.pc = "sellAttempt",
                            !.sellAmt = sellBalance, !.attempt = 1,
                            !.sells = Append(@, [token |-> tok,
                                                 ppm |-> SellFractionPpm,
                                                 amount |-> sellBalance]),
                            !.trace = Append(@, "sellAttempt")])
             /\ UNCHANGED <<now, processedTxs, lastTrade, openPositions, file,
                            tokenBal, loaded>>

MayRetryOnceMore(attempt) == attempt <= DefaultRetries

(* if (attempt < retries): wait retryDelayMs and go round the loop again *)
MayRetry(attempt) == attempt < DefaultRetries

(* One pass of the retry loop of executeCopySell ends: price, optional
   approval, quote, sendAndWait.  Outcomes:
   "noQuote"  the approval failed or the quote holds no transaction (return);
   "retry"    a request or the submission threw, or the swap reverted:
              the loop sleeps retryDelayMs and its next pass starts, or,
              after the last pass, executeCopySell returns failed;
   "success"  receipt with status 1. *)
SellAttempt(id, outcome) ==
  /\ H(id).pc = "sellAttempt"
  /\ UNCHANGED <<nonceVars, indexTasks, sideVars>>
  /\ LET h == H(id)
         tok == h.positions[h.idx]
     IN CASE outcome = "success" ->
               /\ tokenBal[tok] >= h.sellAmt
               /\ AfterSell(id, "success",
                            [tokenBal EXCEPT ![tok] = @ - h.sellAmt])
          [] outcome = "noQuote" -> AfterSell(id, "failed", tokenBal)
          [] OTHER ->
               IF MayRetry(h.attempt)
               THEN /\ handlers' = SetH(id,
                         [h EXCEPT !.attempt = @ + 1,
                                   !.sleptMs = @ + DefaultRetryDelayMs,
                                   !.trace = @ \o <<"wait", "sellAttempt">>])
                    /\ UNCHANGED <<now, processedTxs, lastTrade,
                                   openPositions, file, tokenBal, loaded>>
               ELSE AfterSell(id, "failed", tokenBal)

---------------------------------------------------------------------------
Next ==
  \/ \E tx \in TxSet : handlePendingTx(tx)
  \/ \E id \in Live : \E found \in BOOLEAN : \E r \in ReceiptSet :
       ResolveTokenOut(id, found, r)
  \/ \E id \in Live : \E balance \in Balances : GetBalance(id, balance)
  \/ \E id \in Live :
       \E o \in {"success", "noQuote", "revert"} : ExecuteCopyTrade(id, o)
  \/ \E id \in Live : SellBalanceOf(id)
  \/ \E id \in Live :
       \E o \in {"success", "noQuote", "retry"} : SellAttempt(id, o)
  \/ Tick

Spec == Init /\ [][Next]_vars

---------------------------------------------------------------------------
(* Properties of Spec *)

BuyHandlers == {id \in Live : H(id).side = "buy"}

SaleHandlers == {id \in Live : H(id).side = "sell"}

SuccessfulBuys(w, t) ==
  {id \in BuyHandlers :
     H(id).from = w /\ H(id).tokenOut = t /\ H(id).result = "success"}

HasOutboundTransfer(receipt, whaleFrom) ==
  \E i \in DOMAIN receipt :
    receipt[i].topic = "Transfer" /\ receipt[i].src = whaleFrom

(* The token the whale sold, where the transaction tells: the decoded
   tokenIn, or the token of a Transfer the wallet sent in the receipt. *)
SoldToken(h) ==
  IF h.tokenIn \in Tokens THEN h.tokenIn
  ELSE IF HasOutboundTransfer(h.receipt, h.from)
       THEN LET i == CHOOSE k \in DOMAIN h.receipt :
                       h.receipt[k].topic = "Transfer" /\ h.receipt[k].src = h.from
            IN h.receipt[i].address
       ELSE NoToken

Selling(id) == H(id).pc \in {"sellBalanceOf", "sellAttempt"}

CurrentToken(id) == H(id).positions[H(id).idx]

(* C2: FIFO lots.  While no sale of a wallet has been handled, the ledger
   holds one lot per successful buy of (wallet, token), on top of the lots
   it was loaded with: N successful buys leave N distinct lots. *)
C2_OneLotPerBuy ==
  \A w \in TARGET_WALLETS : \A t \in Tokens :
    (\A id \in SaleHandlers : H(id).from # w) =>
      Count(openPositions[w], t) =
        Count(loaded[w], t) + Cardinality(SuccessfulBuys(w, t))

(* C3, as the code has it: a buy trigger whose handling starts less than
   COOLDOWN_MS after a buy of the same wallet passed the gate is a no-op
   (gate closed, no balance fetch, quote, submission, ledger mutation or
   notification); a sale trigger is never gated and always acts. *)
C3_BuyCooldown ==
  /\ \A i \in BuyHandlers : \A j \in BuyHandlers :
       ( /\ i # j
         /\ H(i).from = H(j).from
         /\ H(i).gate = "passed"
         /\ H(j).startedAt >= H(i).startedAt
         /\ H(j).startedAt - H(i).startedAt < COOLDOWN_MS )
       => ( /\ H(j).gate = "blocked"
            /\ H(j).pc = "done"
            /\ H(j).result = "none"
            /\ H(j).trace = <<>> )
  /\ \A k \in SaleHandlers : H(k).gate = "none" /\ H(k).trace # <<>>

(* A second buy of the same wallet arrived inside the window of a buy that
   went through to a successful trade, and was stopped at the gate. *)
C3_Witness ==
  \E i \in BuyHandlers : \E j \in BuyHandlers :
    /\ i # j
    /\ H(i).from = H(j).from
    /\ H(i).result = "success"
    /\ H(j).startedAt >= H(i).startedAt
    /\ H(j).startedAt - H(i).startedAt < COOLDOWN_MS
    /\ H(j).gate = "blocked"

(* C3 as stated: of any two triggers of one wallet, buys or sales, whose
   handling starts less than COOLDOWN_MS apart, the second does nothing;
   so one of the two, whichever came second, has made no call and no
   ledger mutation. *)
C3_AnyTriggerCooldown ==
  \A i \in Live : \A j \in Live :
    ( /\ i # j
      /\ H(i).side # "none" /\ H(j).side # "none"
      /\ H(i).from = H(j).from
      /\ H(j).startedAt >= H(i).startedAt
      /\ H(j).startedAt - H(i).startedAt < COOLDOWN_MS )
    => (H(i).trace = <<>> \/ H(j).trace = <<>>)

(* C6: no two executeCopySell calls for the same token are in progress at
   the same time. *)
C6_NoParallelSells ==
  \A i \in Live : \A j \in Live :
    (i # j /\ Selling(i) /\ Selling(j)) => CurrentToken(i) # CurrentToken(j)

(* C7: a handled sale of token T with N lots of (wallet, T) in the ledger
   makes exactly N sell attempts, all of T, the i-th sized at 1/(lots
   remaining) of the balance, and leaves no lot of T once all succeeded.
   Stated for a sale that is the only one handled for its wallet. *)
C7_PartialSellSizing ==
  \A id \in SaleHandlers :
    LET h == H(id)
        T == SoldToken(h)
        N == Count(h.positions, T)
        alone == \A o \in SaleHandlers : o # id => H(o).from # h.from
    IN (T \in Tokens /\ h.pc = "done" /\ alone) =>
         /\ Len(h.sells) = N
         /\ \A i \in 1..Len(h.sells) :
              /\ h.sells[i].token = T
              /\ h.sells[i].ppm = PpmScale \div (N - i + 1)
         /\ (Count(h.trace, "notifySellExecuted") = N /\ SuccessfulBuys(h.from, T) = {})
              => T \notin Range(openPositions[h.from])

(* C8: a sale whose sold token cannot be identified ends in the "sell
   detected" notification alone: no executeCopySell, no ledger mutation. *)
C8_UnknownTokenNoSell ==
  \A id \in SaleHandlers :
    SoldToken(H(id)) = NoToken =>
      /\ H(id).positions = <<>>
      /\ H(id).sells = <<>>
      /\ H(id).trace = <<"notifySellDetected">>

(* C9: resolveTokenOut reports a sale only for a receipt that holds both
   the Withdrawal of the wrapped native token and a Transfer sent by the
   observed wallet. *)
C9_SalePrecedence ==
  \A id \in Live :
    (H(id).deferred /\ H(id).found /\ H(id).side = "sell") =>
      /\ HasWithdrawal(H(id).receipt)
      /\ HasOutboundTransfer(H(id).receipt, H(id).from)

(* C10: every entry of the ledger is one the ledger was loaded with or one
   of a buy of that wallet and token whose executeCopyTrade returned
   "success" with a transaction hash; gated, aborted and failed buys leave
   none. *)
C10_LedgerOnlySuccessfulBuys ==
  \A w \in TARGET_WALLETS : \A t \in Range(openPositions[w]) :
    t \in Range(loaded[w]) \/ SuccessfulBuys(w, t) # {}

(* A successful buy has put its entry into the ledger while a buy that
   failed, and one the gate stopped, have left none. *)
C10_Witness ==
  /\ \E i \in BuyHandlers :
       /\ H(i).result = "success"
       /\ H(i).tokenOut \in Range(openPositions[H(i).from])
       /\ H(i).tokenOut \notin Range(loaded[H(i).from])
  /\ \E j \in BuyHandlers :
       /\ H(j).pc = "done"
       /\ H(j).result = "failed" \/ H(j).gate = "blocked"
       /\ H(j).tokenOut \notin Range(openPositions[H(j).from])

(* C11: a buy that passed the cooldown gate and found the native balance
   below (TRADE_AMOUNT_USD / price estimate) * 1.05 makes no quote request
   and no submission, leaves the ledger alone and emits the
   insufficient-balance notification exactly once. *)
C11_BalanceGuard ==
  \A id \in BuyHandlers :
    ( /\ H(id).gate = "passed"
      /\ H(id).pc \notin {"getBalance"}
      /\ H(id).balance * ETH_PRICE_ESTIMATE * 100
           < TRADE_AMOUNT_USD * 105 * UnitsPerEth )
    => /\ H(id).pc = "done"
       /\ H(id).result = "none"
       /\ H(id).trace = <<"getBalance", "notifyInsufficientBalance">>
       /\ (H(id).tokenOut \in Range(openPositions[H(id).from])
             => \/ H(id).tokenOut \in Range(loaded[H(id).from])
                \/ SuccessfulBuys(H(id).from, H(id).tokenOut) # {})

(* A buy passed the gate, found one unit less than required and stopped. *)
C11_Witness ==
  \E id \in BuyHandlers :
    /\ H(id).gate = "passed"
    /\ H(id).pc = "done"
    /\ H(id).balance = RequiredUnits - 1
    /\ Count(H(id).trace, "notifyInsufficientBalance") = 1

(* C12: for one buy trigger executeCopyTrade submits at most one swap
   transaction; when it fails (no liquidity or quote, request error,
   revert) it has made at most one quote request and no second
   submission, and the handler emits exactly one buy-failed notification
   and no buy-executed one. *)
C12_BuyNoRetry ==
  \A id \in BuyHandlers :
    /\ Count(H(id).trace, "send") <= 1
    /\ Count(H(id).trace, "quote") <= 1
    /\ Count(H(id).trace, "notifyBuyFailed")
         = (IF H(id).result = "failed" THEN 1 ELSE 0)
    /\ H(id).result = "failed"
         => /\ H(id).pc = "done"
            /\ Count(H(id).trace, "notifyBuyExecuted") = 0
            /\ Count(H(id).trace, "addPosition") = 0

(* A buy whose single submission reverted, and one that got no quote. *)
C12_Witness ==
  /\ \E id \in BuyHandlers :
       /\ H(id).result = "failed"
       /\ Count(H(id).trace, "send") = 1
  /\ \E id \in BuyHandlers :
       /\ H(id).result = "failed"
       /\ Count(H(id).trace, "send") = 0

SellRetryBounded ==
  \A id \in SaleHandlers :
    LET h == H(id)
        attempts == Count(h.trace, "sellAttempt")
        waits == Count(h.trace, "wait")
    IN /\ h.attempt <= DefaultRetries
       /\ attempts <= DefaultRetries * Len(h.sells)
       /\ waits = attempts - Len(h.sells)
       /\ h.sleptMs = waits * DefaultRetryDelayMs

SellFailureStep ==
  \A id \in SaleHandlers :
    LET h == H(id)
        hNext == handlers'[id[1]][id[2]]
        failedBefore == Count(h.trace, "notifySellFailed")
        failedAfter == Count(hNext.trace, "notifySellFailed")
        removedBefore == Count(h.trace, "removePosition")
        removedAfter == Count(hNext.trace, "removePosition")
    IN /\ failedAfter > failedBefore
            => /\ h.pc = "sellAttempt"
               /\ failedAfter = failedBefore + 1
               /\ removedAfter = removedBefore
               /\ openPositions' = openPositions
               /\ file' = file
       /\ ( /\ h.pc = "sellAttempt"
            /\ h.attempt = DefaultRetries
            /\ hNext # h
            /\ removedAfter = removedBefore )
            => failedAfter = failedBefore + 1

(* C13: executeCopySell makes at most `retries` (3) quote-and-submit
   attempts per position, sleeping retryDelayMs (5000) between
   consecutive attempts; when the last attempt fails too the handler
   emits one sell-failed notification and that step removes nothing from
   the ledger or the positions file. *)
C13_BoundedSellRetry == [][SellRetryBounded' /\ SellFailureStep]_vars

(* A sale used all three attempts, slept twice, reported the failure and
   the position is still in the ledger. *)
C13_Witness ==
  \E id \in SaleHandlers :
    /\ H(id).pc = "done"
    /\ Len(H(id).sells) = 1
    /\ Count(H(id).trace, "sellAttempt") = DefaultRetries
    /\ H(id).sleptMs = (DefaultRetries - 1) * DefaultRetryDelayMs
    /\ Count(H(id).trace, "notifySellFailed") = 1
    /\ H(id).sells[1].token \in Range(openPositions[H(id).from])

(* C14: when executeCopySell finds a zero balance of the position's
   token it makes no quote and no submission, the sell is skipped, and
   the handler removes the position from the ledger and writes the
   ledger without it to the positions file. *)
C14_ZeroBalanceSkip ==
  [][\A id \in SaleHandlers :
       LET h == H(id)
           hNext == handlers'[id[1]][id[2]]
           tok == CurrentToken(id)
       IN ( /\ h.pc = "sellBalanceOf"
            /\ tokenBal[tok] = 0
            /\ hNext # h )
          => /\ hNext.sells = h.sells
             /\ hNext.attempt = 0
             /\ hNext.trace \in {h.trace \o <<"removePosition">>,
                                 h.trace \o <<"removePosition", "executeCopySell">>}
             /\ tok \notin Range(openPositions'[h.from])
             /\ tok \notin Range(loadPositions(file')[h.from])
             /\ file' = savePositions(openPositions')
             /\ tokenBal' = tokenBal]_vars

(* The only sale handled found its positions with a zero balance, never
   reached the retry loop, removed them and left neither the ledger nor
   the file with them. *)
C14_Witness ==
  \E id \in SaleHandlers :
    /\ SaleHandlers = {id}
    /\ H(id).pc = "done"
    /\ H(id).positions # <<>>
    /\ H(id).sells = <<>>
    /\ Count(H(id).trace, "sellAttempt") = 0
    /\ Count(H(id).trace, "removePosition") = Len(H(id).positions)
    /\ \A k \in DOMAIN H(id).positions :
         /\ tokenBal[H(id).positions[k]] = 0
         /\ H(id).positions[k] \notin Range(openPositions[H(id).from])
         /\ H(id).positions[k] \notin Range(loadPositions(file)[H(id).from])

(* C15: a handled sale of a token for which the ledger held no position
   of that wallet when the sale was handled only emits the sell-detected
   notification: executeCopySell is not called and nothing is removed
   from the ledger. *)
C15_UnheldTokenOnlyNotifies ==
  \A id \in SaleHandlers :
    LET h == H(id)
        T == SoldToken(h)
    IN (T \in Tokens /\ T \notin Range(h.positions)) =>
         /\ h.pc = "done"
         /\ h.sells = <<>>
         /\ h.trace = <<"notifySellDetected">>

(* C21: a deferred swap whose receipt was obtained but holds neither a
   Withdrawal of the wrapped native token nor a Transfer to the wallet ends
   as "unknown": one notification of that outcome is sent and no trade is
   started. *)
C21_AmbiguitySurfaced ==
  \A id \in Live :
    ( /\ H(id).deferred
      /\ H(id).found
      /\ H(id).pc = "done"
      /\ resolveTokenOut(H(id).receipt, H(id).from) = NoToken )
      => /\ H(id).side = "none"
         /\ H(id).result = "none"
         /\ H(id).sells = <<>>
         /\ Count(H(id).trace, "notifyUnknown") = 1

(* C28: a buy that passed the cooldown gate and the balance guard makes
   one quote and execute cycle and ends in one of two ways: on success one
   entry for (wallet, tokenOut) is added to the ledger and one buy-executed
   notification is sent; on failure the ledger is unchanged and one
   buy-failed notification is sent. *)
C28_BuyOutcome ==
  [][\A id \in HandlerIds :
       (/\ id \in Live
        /\ H(id).pc = "executeCopyTrade"
        /\ handlers'[id[1]][id[2]].pc = "done")
         => LET h == handlers'[id[1]][id[2]]
                w == h.from
                t == h.tokenOut
            IN /\ Count(h.trace, "quote") = 1
               /\ Count(h.trace, "send") <= 1
               /\ h.result \in {"success", "failed"}
               /\ h.result = "success"
                    => /\ Len(openPositions'[w]) = Len(openPositions[w]) + 1
                       /\ Count(openPositions'[w], t)
                            = Count(openPositions[w], t) + 1
                       /\ Count(h.trace, "notifyBuyExecuted") = 1
                       /\ Count(h.trace, "notifyBuyFailed") = 0
               /\ h.result = "failed"
                    => /\ openPositions' = openPositions
                       /\ file' = file
                       /\ Count(h.trace, "notifyBuyFailed") = 1
                       /\ Count(h.trace, "notifyBuyExecuted") = 0]_vars

(* C37: the last-trade stamp of a wallet is set only by a buy that was
   submitted: once the buy triggers of a wallet are all handled, a stamp is
   there only if one of them submitted a transaction; a trigger stopped by
   the balance guard, or failed before any submission, leaves none. *)
C37_CooldownOnlyOnExecutedBuy ==
  \A w \in TARGET_WALLETS :
    ( /\ \A id \in BuyHandlers : H(id).from = w => H(id).pc = "done"
      /\ lastTrade[w] # 0 )
    => \E id \in BuyHandlers :
         H(id).from = w /\ Count(H(id).trace, "send") >= 1

(* The sale handler `id` completes a successful sell of its current
   snapshot entry in this step. *)
SellSucceeds(id) ==
  /\ H(id).side = "sell"
  /\ H(id).pc = "sellAttempt"
  /\ handlers'[id[1]][id[2]] # H(id)
  /\ LET tok == H(id).positions[H(id).idx]
     IN tokenBal'[tok] = tokenBal[tok] - H(id).sellAmt

(* The balance of tok grew after the sale handler `id` read it, and every
   successful buy of tok was made for the whale of `id`: a buy of tok for
   that whale succeeded after the read, and no sale that read the balance
   after it has succeeded (such a sale would have left nothing over). *)
BoughtSinceRead(id) ==
  LET h == H(id)
      tok == h.positions[h.idx]
  IN /\ tokenBal[tok] > h.sellAmt
     /\ SuccessfulBuys(h.from, tok) # {}
     /\ \A b \in BuyHandlers :
          (H(b).tokenOut = tok /\ H(b).result = "success") => H(b).from = h.from

(* C34: when a buy of token T for whale W succeeded and no sell of T that
   read the account balance after that buy has succeeded, T is in W's
   ledger, also when the buy ran between the balance read and the removal
   of a sale handler of W: the sale that completes leaves T listed. *)
C34_LedgerMatchesHoldings ==
  [][\A id \in Live :
       (SellSucceeds(id) /\ BoughtSinceRead(id))
         => \E i \in DOMAIN openPositions'[H(id).from] :
              openPositions'[H(id).from][i] = H(id).positions[H(id).idx]]_vars

(* C35: after a successful sell of token T triggered by whale W, every
   other whale whose ledger still lists T has a nonzero account balance of
   T backing the entry. *)
C35_SalesScopedToWhale ==
  [][\A id \in Live :
       SellSucceeds(id)
         => \A w2 \in TARGET_WALLETS \ {H(id).from} :
              H(id).positions[H(id).idx] \in Range(openPositions'[w2])
                => tokenBal'[H(id).positions[H(id).idx]] > 0]_vars

StepsInOrder(h) ==
  LET tr == h.trace IN
  /\ h.pc = "resolve" => (tr = <<>> /\ h.side = "none" /\ h.gate = "none")
  /\ \A i \in DOMAIN tr :
       /\ tr[i] = "executeCopyTrade"
            => /\ i > 1 /\ tr[i - 1] = "getBalance"
               /\ h.gate = "passed"
               /\ ~BalanceInsufficient(h.balance)
       /\ tr[i] \in {"quote", "send"}
            => \E j \in 1..(i - 1) : tr[j] = "executeCopyTrade"
       /\ tr[i] = "addPosition" => \E j \in 1..(i - 1) : tr[j] = "send"
       /\ tr[i] = "notifyBuyExecuted" => (i > 1 /\ tr[i - 1] = "addPosition")
       /\ tr[i] = "removePosition"
            => \E j \in 1..(i - 1) : tr[j] = "executeCopySell"
       /\ tr[i] = "notifySellExecuted"
            => (i > 1 /\ tr[i - 1] = "removePosition")

NotifiedNow(id, what) ==
  /\ id \in Live
  /\ Count(handlers'[id[1]][id[2]].trace, what) > Count(H(id).trace, what)

(* C29: within the handling of one transaction the steps come in the order
   classify, resolve (for a swap without tokenOut), gate, execute, persist,
   notify: nothing happens before the resolution ends, executeCopyTrade
   starts only after the cooldown gate and the balance guard passed, and
   when a buy-executed or sell-executed notification is sent the ledger
   already holds the mutation of that trade and savePositions has written
   it. *)
C29_StepOrder ==
  [][\A x \in Hashes : \A k \in 1..Len(handlers'[x]) :
       LET id == <<x, k>> IN
       (k > Len(handlers[x]) \/ handlers'[x][k] # handlers[x][k])
       => /\ StepsInOrder(handlers'[x][k])
          /\ NotifiedNow(id, "notifyBuyExecuted")
               => /\ H(id).tokenOut \in Range(openPositions'[H(id).from])
                  /\ file' = savePositions(openPositions')
          /\ NotifiedNow(id, "notifySellExecuted")
               => /\ CurrentToken(id) \notin Range(openPositions'[H(id).from])
                  /\ file' = savePositions(openPositions')]_vars

(* A swap without tokenOut was resolved to a token, passed both gates and
   was bought, and a sale sold a position: both notifications are out. *)
C29_Witness ==
  /\ \E id \in BuyHandlers :
       /\ H(id).deferred
       /\ H(id).trace = <<"getBalance", "executeCopyTrade", "quote", "send",
                          "addPosition", "notifyBuyExecuted">>
  /\ \E id \in SaleHandlers :
       Count(H(id).trace, "notifySellExecuted") = 1

---------------------------------------------------------------------------
(* Nonce manager of trader.ts *)

(* The pipeline and the index handler at rest. *)
PipelineIdle ==
  /\ now = StartMs
  /\ processedTxs = {}
  /\ lastTrade = [w \in TARGET_WALLETS |-> 0]
  /\ file = <<>>
  /\ openPositions = loadPositions(file)
  /\ loaded = openPositions
  /\ tokenBal = [t \in Tokens |-> 0]
  /\ handlers = [x \in Hashes |-> <<>>]

NonceRange == 0..(MaxCallers + MaxExternal)

(* signer.getNonce("pending"): the first nonce of the account the node has
   not seen. *)
PendingNonce ==
  CHOOSE n \in NonceRange :
    n \notin usedNonces /\ \A m \in NonceRange : m < n => m \in usedNonces

NonceState ==
  [ cur |-> currentNonce, lock |-> nonceLock, queue |-> nonceLockQueue,
    callers |-> callers, granted |-> granted, handed |-> handed ]

(* nonceLockQueue.shift(): the oldest resolver and the rest. *)
shiftFromBack(q) ==
  [next |-> q[Len(q)], rest |-> SubSeq(q, 1, Len(q) - 1)]

shift(q) ==
  [next |-> Head(q), rest |-> Tail(q)]

(* `return currentNonce++` of getNextNonce for caller c. *)
TakeNonce(st, c) ==
  [st EXCEPT !.cur = @ + 1,
             !.callers[c].nonce = st.cur,
             !.callers[c].pc = "submitting",
             !.handed = Append(@, [caller |-> c, nonce |-> st.cur,
                                   resets |-> resets,
                                   fetched |-> st.callers[c].pc = "priming"])]

RECURSIVE releaseNonceLock(_)

AlwaysFetches(cur) == TRUE

(* if (currentNonce === null) currentNonce = await signer.getNonce(...) *)
NeedsFetch(cur) == cur = NullNonce

(* getNextNonce of caller c from the point where it holds the lock: it
   waits for signer.getNonce when the cache is unset, else takes the cached
   nonce and releases in its finally block. *)
HoldingLock(st, c) ==
  IF NeedsFetch(st.cur)
  THEN [st EXCEPT !.callers[c].pc = "priming"]
  ELSE releaseNonceLock(TakeNonce(st, c))

(* releaseNonceLock: the oldest waiting caller is resumed holding the lock
   and runs on in the same turn; with nobody waiting the lock is freed. *)
releaseNonceLock(st) ==
  IF st.queue = <<>>
  THEN [st EXCEPT !.lock = FALSE]
  ELSE LET sh == shift(st.queue)
       IN HoldingLock([st EXCEPT !.queue = sh.rest,
                                 !.granted = Append(@, sh.next)], sh.next)

(* acquireNonceLock as called by c. *)
acquireNonceLock(st, c) ==
  IF ~st.lock
  THEN HoldingLock([st EXCEPT !.lock = TRUE, !.granted = Append(@, c)], c)
  ELSE [st EXCEPT !.queue = Append(@, c),
                  !.callers[c].pc = "queued",
                  !.callers[c].waited = TRUE]

SetNonceState(st) ==
  /\ currentNonce' = st.cur
  /\ nonceLock' = st.lock
  /\ nonceLockQueue' = st.queue
  /\ callers' = st.callers
  /\ granted' = st.granted
  /\ handed' = st.handed

(* A buy, sell or approval flow reaches getNextNonce. *)
getNextNonce(c, kind) ==
  /\ callers[c].pc = "idle"
  /\ arrival' = Append(arrival, c)
  /\ SetNonceState(acquireNonceLock(
        [NonceState EXCEPT !.callers[c].kind = kind], c))
  /\ UNCHANGED <<usedNonces, resets>>
  /\ UNCHANGED <<now, processedTxs, lastTrade, pipelineVars, indexTasks, sideVars>>

(* signer.getNonce("pending") answers the caller that holds the lock. *)
PrimeNonce(c) ==
  /\ callers[c].pc = "priming"
  /\ SetNonceState(releaseNonceLock(
        TakeNonce([NonceState EXCEPT !.cur = PendingNonce], c)))
  /\ UNCHANGED <<usedNonces, resets, arrival>>
  /\ UNCHANGED <<now, processedTxs, lastTrade, pipelineVars, indexTasks, sideVars>>

keepNonce(cur) == cur

(* function resetNonce(): void { currentNonce = null; } *)
resetNonce(cur) == NullNonce

(* signer.sendTransaction / tokenContract.approve with the nonce taken.
   send = TRUE: the request reaches the node, which rejects a nonce it has
   seen (NONCE_EXPIRED, REPLACEMENT_UNDERPRICED: resetNonce in the catch)
   and takes any other.  send = FALSE: the call throws for another reason. *)
Submit(c, send) ==
  /\ callers[c].pc = "submitting"
  /\ IF send /\ callers[c].nonce \in usedNonces
     THEN /\ currentNonce' = resetNonce(currentNonce)
          /\ resets' = resets + 1
          /\ callers' = [callers EXCEPT ![c].pc = "nonceError"]
          /\ UNCHANGED usedNonces
     ELSE IF send
          THEN /\ usedNonces' = usedNonces \cup {callers[c].nonce}
               /\ callers' = [callers EXCEPT ![c].pc = "sent"]
               /\ UNCHANGED <<currentNonce, resets>>
          ELSE /\ callers' = [callers EXCEPT ![c].pc = "threw"]
               /\ UNCHANGED <<currentNonce, resets, usedNonces>>
  /\ UNCHANGED <<nonceLock, nonceLockQueue, arrival, granted, handed>>
  /\ UNCHANGED <<now, processedTxs, lastTrade, pipelineVars, indexTasks, sideVars>>

NumExternal ==
  Cardinality(usedNonces) - Cardinality({c \in Callers : callers[c].pc = "sent"})

(* A transaction of the managed account that this process did not send. *)
ExternalAccountTx ==
  /\ NumExternal < MaxExternal
  /\ usedNonces' = usedNonces \cup {PendingNonce}
  /\ UNCHANGED <<currentNonce, nonceLock, nonceLockQueue, callers, arrival,
                 granted, handed, resets>>
  /\ UNCHANGED <<now, processedTxs, lastTrade, pipelineVars, indexTasks, sideVars>>

InitNonce ==
  /\ PipelineIdle
  /\ NonceIdle
  /\ indexTasks = <<>>
  /\ SideIdle

NextNonce ==
  \/ \E c \in Callers : \E kind \in {"sendAndWait", "checkAndApproveToken"} :
       getNextNonce(c, kind)
  \/ \E c \in Callers : PrimeNonce(c)
  \/ \E c \in Callers : \E send \in BOOLEAN : Submit(c, send)
  \/ ExternalAccountTx

SpecNonce == InitNonce /\ [][NextNonce]_vars

(* C4: no two callers of getNextNonce hold the same nonce for transactions
   that both are still to be submitted. *)
C4_NoDuplicateNonce ==
  \A c \in Callers : \A d \in Callers :
    (c # d /\ callers[c].pc = "submitting" /\ callers[d].pc = "submitting")
      => callers[c].nonce # callers[d].nonce

(* C5: the lock is taken at once when free, so nobody waits on a free lock;
   the lock is granted in arrival order, the callers still waiting being
   the later arrivals in their order; getNextNonce returns in arrival
   order, with increasing nonces between two resets of the cache. *)
C5_NonceLockFifo ==
  /\ ~nonceLock => nonceLockQueue = <<>>
  /\ granted \o nonceLockQueue = arrival
  /\ [i \in DOMAIN handed |-> handed[i].caller] = SubSeq(arrival, 1, Len(handed))
  /\ \A i \in DOMAIN handed : \A j \in DOMAIN handed :
       (i < j /\ handed[i].resets = handed[j].resets)
         => handed[i].nonce < handed[j].nonce

(* Two callers arrived while the lock was held, waited, and have both been
   granted the lock and handed their nonces, with no reset in between. *)
C5_Witness ==
  /\ resets = 0
  /\ Len(handed) >= 3
  /\ Cardinality({c \in Callers : callers[c].waited /\ callers[c].pc = "submitting"}) >= 2

(* C22: a submission of sendAndWait or checkAndApproveToken that fails
   with a nonce error sets the cached counter to null; a submission that
   fails otherwise leaves it as it was; and with the cached counter null,
   the next nonce getNextNonce returns is the pending nonce it has just
   fetched from the chain. *)
C22_NonceResetOnNonceError ==
  [][ /\ \A c \in Callers :
           /\ (callers[c].pc = "submitting" /\ callers'[c].pc = "nonceError")
                => currentNonce' = NullNonce
           /\ (callers[c].pc = "submitting" /\ callers'[c].pc = "threw")
                => currentNonce' = currentNonce
      /\ (currentNonce = NullNonce /\ Len(handed') > Len(handed))
           => LET first == handed'[Len(handed) + 1]
              IN /\ callers[first.caller].pc = "priming"
                 /\ first.fetched
                 /\ first.nonce = PendingNonce ]_vars

(* After a nonce error reset the cache, a later caller was handed the
   pending nonce fetched from the chain, and another submission that threw
   for another reason is on record. *)
C22_Witness ==
  /\ resets >= 1
  /\ \E c \in Callers : callers[c].pc = "nonceError"
  /\ \E c \in Callers : callers[c].pc = "threw"
  /\ \E i \in DOMAIN handed : handed[i].resets >= 1 /\ handed[i].fetched

(* C23: getNextNonce asks the chain for the pending nonce only when the
   cached counter is null; between two resets it asks once, for the first
   caller, and the following callers get the consecutive integers after
   the fetched value. *)
C23_LazyPriming ==
  /\ \A c \in Callers : callers[c].pc = "priming" => currentNonce = NullNonce
  /\ \A i \in DOMAIN handed :
       IF i = 1 \/ handed[i].resets # handed[IF i = 1 THEN 1 ELSE i - 1].resets
       THEN handed[i].fetched
       ELSE /\ ~handed[i].fetched
            /\ handed[i].nonce = handed[i - 1].nonce + 1

(* Three callers in a row without a reset: one fetch, then n+1 and n+2. *)
C23_Witness ==
  /\ Len(handed) >= 3
  /\ handed[1].fetched
  /\ handed[3].resets = handed[1].resets
  /\ handed[3].nonce = handed[1].nonce + 2

(* C33: no nonce gap.  A nonce that was handed out is used by an accepted
   transaction or the cache is reset before the next one is handed out:
   whenever no caller is fetching or about to submit, the nonce that
   getNextNonce would hand out next (the cached counter, when set) is not
   greater than the chain's pending nonce. *)
C33_NoNonceGap ==
  (\A c \in Callers : callers[c].pc \notin {"priming", "submitting"})
    => (currentNonce = NullNonce \/ currentNonce <= PendingNonce)

HeldAfterThrow(st) == st

(* finally { releaseNonceLock(); } on the path where getNonce threw *)
ReleasedAfterThrow(st) == releaseNonceLock(st)

(* signer.getNonce("pending") rejects: getNextNonce leaves through its
   finally block and rejects, the cache stays null. *)
PrimeNonceThrows(c) ==
  /\ callers[c].pc = "priming"
  /\ SetNonceState(ReleasedAfterThrow(
        [NonceState EXCEPT !.callers[c].pc = "primeFailed"]))
  /\ UNCHANGED <<usedNonces, resets, arrival>>
  /\ UNCHANGED <<now, processedTxs, lastTrade, pipelineVars, indexTasks, sideVars>>

MaxLockCallers == 2

(* The account is used by the bot alone here: the lock does not depend on
   what getNonce answers. *)
NextNonceLive ==
  \/ \E c \in 1..MaxLockCallers :
       \E kind \in {"sendAndWait", "checkAndApproveToken"} :
         getNextNonce(c, kind)
  \/ \E c \in Callers : PrimeNonce(c)
  \/ \E c \in Callers : PrimeNonceThrows(c)
  \/ \E c \in Callers : \E send \in BOOLEAN : Submit(c, send)

(* The nonce manager with a getNonce that may reject, and with every
   pending getNonce settling one way or the other. *)
SpecNonceLive ==
  /\ InitNonce
  /\ [][NextNonceLive]_vars
  /\ WF_vars(\E c \in Callers : PrimeNonce(c) \/ PrimeNonceThrows(c))

(* The callers inside the critical section of getNextNonce across a turn
   of the event loop: those awaiting getNonce. *)
InsideLock == {c \in Callers : callers[c].pc = "priming"}

(* C32: at most one caller is inside the critical section of getNextNonce;
   the lock is held only while a caller is inside, on every exit path,
   the one where getNonce throws included; so the queue of waiting callers
   always empties: every caller that waits for the lock gets it. *)
C32_LockExclusionAndRelease ==
  /\ [](/\ Cardinality(InsideLock) <= 1
        /\ nonceLock <=> InsideLock # {}
        /\ nonceLockQueue # <<>> => nonceLock)
  /\ (nonceLockQueue # <<>>) ~> (nonceLockQueue = <<>>)

(* A priming failed, and a caller that had waited for the lock went on
   with a nonce afterwards; the lock is free. *)
C32_Witness ==
  /\ ~nonceLock
  /\ \E c \in Callers : callers[c].pc = "primeFailed"
  /\ \E d \in Callers : callers[d].waited /\ callers[d].pc = "submitting"

---------------------------------------------------------------------------
(* handlePendingTx of index.ts *)

IndexTickMs == INDEX_COOLDOWN_MS

IndexTxSet == {tx \in TxSet : tx.hash \in {"a", "d", "f", "g"}}

IndexHashes == {tx.hash : tx \in IndexTxSet}

TaskIds == {<<x, k>> : x \in IndexHashes, k \in 1..MaxDeliveries}

LiveTasks == {id \in TaskIds : id[2] <= Len(indexTasks[id[1]])}

T(id) == indexTasks[id[1]][id[2]]

SetT(id, rec) == [indexTasks EXCEPT ![id[1]][id[2]] = rec]

NewTask(tx, pc) ==
  [hash |-> tx.hash, from |-> tx.from, pc |-> pc, tokenOut |-> tx.tokenOut,
   started |-> FALSE, deferred |-> pc = "timer", trace |-> <<>>]

IndexCooldownActive(lastTime, t) == t - lastTime < INDEX_COOLDOWN_MS

(* The receipt scan of the timer callback: the token of the last Transfer
   to the wallet, if any. *)
IndexResolvedTokenOut(receipt, capturedFrom) ==
  LET rel == SelectSeq(receipt,
               LAMBDA log : log.topic = "Transfer" /\ log.dst = capturedFrom)
  IN IF Len(rel) = 0 THEN NoToken ELSE rel[Len(rel)].address

(* executeCopyTrade as index.ts imports it skips a swap into ETH. *)
IndexTradeOutcomes(tokenOut) ==
  IF isEth(tokenOut) THEN {"skipped"} ELSE {"success", "failed"}

(* One delivery of a transaction to handlePendingTx, up to its first await
   or to arming the 3 s timer. *)
IndexHandlePendingTx(tx) ==
  /\ Len(indexTasks[tx.hash]) < MaxDeliveries
  /\ IF \/ tx.from \notin TARGET_WALLETS
        \/ tx.hash \in processedTxs
        \/ ~tx.isSwap
        \/ IndexCooldownActive(lastTrade[tx.from], now)
     THEN /\ indexTasks' = [indexTasks EXCEPT ![tx.hash] =
                              Append(@, NewTask(tx, "returned"))]
          /\ UNCHANGED <<processedTxs, lastTrade>>
     ELSE IF tx.tokenOut # NoToken
          THEN /\ processedTxs' = processedTxs \cup {tx.hash}
               /\ lastTrade' = [lastTrade EXCEPT ![tx.from] = now]
               /\ indexTasks' = [indexTasks EXCEPT ![tx.hash] =
                    Append(@, [NewTask(tx, "getBalance") EXCEPT
                                 !.started = TRUE,
                                 !.trace = <<"getBalance">>])]
          ELSE /\ indexTasks' = [indexTasks EXCEPT ![tx.hash] =
                                   Append(@, NewTask(tx, "timer"))]
               /\ UNCHANGED <<processedTxs, lastTrade>>
  /\ UNCHANGED <<now, pipelineVars, nonceVars, sideVars>>

(* The timer callback up to its balance fetch: receipt polling, the scan,
   the second cooldown check. *)
IndexTimerFired(id, found, receipt) ==
  /\ T(id).pc = "timer"
  /\ ~found => receipt = <<>>
  /\ LET t == T(id)
         resolvedTokenOut == IF found THEN IndexResolvedTokenOut(receipt, t.from)
                             ELSE NoToken
     IN IF resolvedTokenOut = NoToken \/ IndexCooldownActive(lastTrade[t.from], now)
        THEN /\ indexTasks' = SetT(id, [t EXCEPT !.pc = "returned",
                                                !.tokenOut = resolvedTokenOut])
             /\ UNCHANGED lastTrade
        ELSE /\ lastTrade' = [lastTrade EXCEPT ![t.from] = now]
             /\ indexTasks' = SetT(id, [t EXCEPT !.pc = "getBalance",
                                                !.tokenOut = resolvedTokenOut,
                                                !.started = TRUE,
                                                !.trace = <<"getBalance">>])
  /\ UNCHANGED <<now, processedTxs, pipelineVars, nonceVars, sideVars>>

(* getBalance returns: the balance guard, insertTrade, executeCopyTrade. *)
IndexGetBalance(id, balance) ==
  /\ T(id).pc = "getBalance"
  /\ indexTasks' = SetT(id,
       IF ~BalanceInsufficient(balance)
       THEN [T(id) EXCEPT !.pc = "executeCopyTrade",
                          !.trace = @ \o <<"insertTrade", "executeCopyTrade">>]
       ELSE [T(id) EXCEPT !.pc = "returned",
                          !.trace = Append(@, "notifyInsufficientBalance")])
  /\ UNCHANGED <<now, processedTxs, lastTrade, pipelineVars, nonceVars, sideVars>>

(* executeCopyTrade returns; the journal update and the notification. *)
IndexExecuteCopyTrade(id, outcome) ==
  /\ T(id).pc = "executeCopyTrade"
  /\ outcome \in IndexTradeOutcomes(T(id).tokenOut)
  /\ indexTasks' = SetT(id,
       [T(id) EXCEPT !.pc = "returned",
          !.trace = @ \o
             (CASE outcome = "skipped" -> <<"skipTrade", "notifySellDetected">>
                [] outcome = "success" -> <<"updateTradeConfirmed", "notifyBuyExecuted">>
                [] OTHER -> <<"updateTradeConfirmed", "notifyBuyFailed">>)])
  /\ UNCHANGED <<now, processedTxs, lastTrade, pipelineVars, nonceVars, sideVars>>

(* A transaction of somebody else, as every block holds. *)
OtherTx ==
  [hash |-> "n", from |-> "other", isSwap |-> TRUE, tokenIn |-> WETH,
   tokenOut |-> "T1"]

IndexBlockTxs == IndexTxSet \cup {OtherTx}

(* handleConfirmedTx up to its first await: the entry is taken out of
   pendingTrades and the hash is marked as processed.  Nothing in index.ts
   ever puts an entry into pendingTrades. *)
handleConfirmedTx(txHash) ==
  IF txHash \notin pendingTrades
  THEN UNCHANGED <<pendingTrades, confirmedCalls, processedTxs>>
  ELSE /\ pendingTrades' = pendingTrades \ {txHash}
       /\ confirmedCalls' = confirmedCalls \cup {txHash}
       /\ processedTxs' = processedTxs \cup {txHash}

(* The loop body of the block handler of connectWS for one transaction of
   the fetched block: handlePendingTx for a target wallet, handleConfirmedTx
   for an awaited hash of anybody else. *)
IndexBlockTx(tx) ==
  IF tx.from \in TARGET_WALLETS
  THEN IndexHandlePendingTx(tx)
  ELSE /\ IF tx.hash \in pendingTrades
          THEN handleConfirmedTx(tx.hash)
          ELSE UNCHANGED <<pendingTrades, confirmedCalls, processedTxs>>
       /\ UNCHANGED <<now, lastTrade, pipelineVars, nonceVars, indexTasks,
                      decoderVars, wsVars, pollVars, blockVars, pureVars>>

IndexTick ==
  /\ now < StartMs + MaxTicks * IndexTickMs
  /\ now' = now + IndexTickMs
  /\ UNCHANGED <<processedTxs, lastTrade, pipelineVars, nonceVars, indexTasks, sideVars>>

InitIndex ==
  /\ PipelineIdle
  /\ NonceIdle
  /\ indexTasks = [x \in IndexHashes |-> <<>>]
  /\ SideIdle

NextIndex ==
  \/ \E tx \in IndexBlockTxs : IndexBlockTx(tx)
  \/ \E id \in LiveTasks : \E found \in BOOLEAN : \E r \in ReceiptSet :
       IndexTimerFired(id, found, r)
  \/ \E id \in LiveTasks : \E balance \in Balances : IndexGetBalance(id, balance)
  \/ \E id \in LiveTasks : \E o \in {"success", "failed", "skipped"} :
       IndexExecuteCopyTrade(id, o)
  \/ IndexTick

SpecIndex == InitIndex /\ [][NextIndex]_vars

(* C1: however often handlePendingTx is invoked for one hash, at most one
   trade handling is started for that hash. *)
C1_AtMostOneHandlingPerHash ==
  \A x \in IndexHashes :
    Cardinality({k \in DOMAIN indexTasks[x] : indexTasks[x][k].started}) <= 1

(* C20: once the block holding a swap that handlePendingTx deferred has
   been ingested and its handlers have returned, handleConfirmedTx has
   been invoked for its hash and pendingTrades no longer holds it. *)
C20_ResolutionTrigger ==
  \A x \in IndexHashes :
    ( /\ \E k \in DOMAIN indexTasks[x] : indexTasks[x][k].deferred
      /\ \A k \in DOMAIN indexTasks[x] : indexTasks[x][k].pc = "returned" )
      => /\ x \in confirmedCalls
         /\ x \notin pendingTrades

---------------------------------------------------------------------------
(* The position ledger of part_000 under any sequence of mutations *)

(* fs.writeFileSync inside the try of savePositions: when it throws, the
   catch logs the error and the file keeps what it held. *)
WrittenFile(old, map, written) ==
  IF written THEN savePositions(map) ELSE old

addPosition(whale, token, written) ==
  /\ openPositions' = AddedPosition(openPositions, whale, token)
  /\ file' = WrittenFile(file, openPositions', written)
  /\ UNCHANGED <<now, processedTxs, lastTrade, tokenBal, handlers, loaded,
                 nonceVars, indexTasks, sideVars>>

removePosition(whale, token, written) ==
  /\ openPositions' = RemovedPosition(openPositions, whale, token)
  /\ file' = WrittenFile(file, openPositions', written)
  /\ UNCHANGED <<now, processedTxs, lastTrade, tokenBal, handlers, loaded,
                 nonceVars, indexTasks, sideVars>>

(* The process stops and starts again: openPositions = loadPositions(). *)
Restart ==
  /\ openPositions' = loadPositions(file)
  /\ loaded' = openPositions'
  /\ UNCHANGED <<now, processedTxs, lastTrade, file, tokenBal, handlers,
                 nonceVars, indexTasks, sideVars>>

InitLedger == Init

NextLedger ==
  \/ \E w \in TARGET_WALLETS : \E t \in Tokens : \E written \in BOOLEAN :
       addPosition(w, t, written)
  \/ \E w \in TARGET_WALLETS : \E t \in Tokens : \E written \in BOOLEAN :
       removePosition(w, t, written)
  \/ Restart

SpecLedger == InitLedger /\ [][NextLedger]_vars

(* C16: whenever addPosition or removePosition has returned, the positions
   file holds the in-memory ledger, so that loadPositions after a crash
   yields the ledger as of the last completed mutation. *)
C16_PersistThenAcknowledge ==
  /\ file = savePositions(openPositions)
  /\ loadPositions(file) = openPositions

---------------------------------------------------------------------------
(* decodeSwap of decoder.ts.  Calldata and addresses are strings. *)

SWAP_SELECTORS ==
  ("0x5ae401dc" :> "Uniswap V3 - multicall") @@
  ("0x24856bc3" :> "Uniswap V3 - execute") @@
  ("0x3593564c" :> "Uniswap Universal Router - execute") @@
  ("0x04e45aaf" :> "Uniswap V3 - exactInputSingle") @@
  ("0xdb3e2198" :> "Uniswap V3 - exactOutputSingle") @@
  ("0xb858183f" :> "Uniswap V3 - exactInput") @@
  ("0x09b81346" :> "Uniswap V3 - exactOutput") @@
  ("0x8a657e67" :> "Aerodrome - swapExactTokensForTokens") @@
  ("0x38ed1739" :> "Aerodrome - swapExactTokensForTokens (v2)") @@
  ("0x7ff36ab5" :> "Aerodrome - swapExactETHForTokens") @@
  ("0x18cbafe5" :> "Aerodrome - swapExactTokensForETH") @@
  ("0xd9627aa4" :> "0x - sellToUniswap") @@
  ("0x415565b0" :> "0x - transformERC20") @@
  ("0xf7fcd384" :> "0x - sellTokenForTokenToUniswapV3") @@
  ("0x7c025200" :> "1inch - swap") @@
  ("0xe449022e" :> "1inch - uniswapV3Swap") @@
  ("0x2e95b6c8" :> "1inch - unoswap") @@
  ("0xeffbec13" :> "GMGN/OKX - unxswapByOrderId") @@
  ("0x0b68e4e8" :> "GMGN/OKX - smartSwapByOrderId") @@
  ("0x2e1a7d4d" :> "GMGN/OKX - withdrawETH") @@
  ("0xcae6a6b3" :> "GMGN/OKX - multicall")

KNOWN_ROUTERS ==
  { "0x4409921ae43a39a11d90f7b7f96cfd0b8093d9fc",
    "0x77449ff075c0a385796da0762bcb46fd5cc884c6",
    "0xcf77a3ba9a5ca399b7c97c74d54e5b1beb874e43",
    "0x3fc91a3afd70395cd496c647d5a6cc9d4b2b7fad",
    "0x1111111254eeb25477b68fb85ed929f73a960582",
    "0x1985b39d5e55940f2e2b2ded79a23b9e5a25f4ff" }

ExactInputSingle == "0x04e45aaf"

(* String.prototype.toLowerCase on the strings of the samples: the ones
   that hold upper-case letters, and their lower-case forms. *)
LowerCaseOf ==
  ("0x04E45AAF" :> "0x04e45aaf") @@
  ("0x3593564C" :> "0x3593564c") @@
  ("0xA9059CBB" :> "0xa9059cbb") @@
  ("0x3fC91A3afd70395Cd496C647d5a6CC9D4B2b7FAD"
     :> "0x3fc91a3afd70395cd496c647d5a6cc9d4b2b7fad")

toLowerCase(s) == IF s \in DOMAIN LowerCaseOf THEN LowerCaseOf[s] ELSE s

(* String.prototype.slice(0, n) *)
slice(s, n) == IF Len(s) <= n THEN s ELSE SubSeq(s, 1, n)

(* ABI words, 64 hex digits each *)
Zero24 == "000000000000000000000000"

AddressWord(a) == Zero24 \o a

UintWord(digits4) == Zero24 \o Zero24 \o "000000000000" \o digits4

SampleTokens ==
  { "4200000000000000000000000000000000000006",
    "833589fcd6edb6e08f4c7c32d4f71b54bda02913" }

SampleRecipient == "50c5725949a6f0c72e6c4a641f24049a917db0cb"

(* The arguments of exactInputSingle: tokenIn, tokenOut, fee, recipient,
   amountIn, amountOutMinimum, sqrtPriceLimitX96. *)
EncodedParams(tokenIn, tokenOut) ==
  AddressWord(tokenIn) \o AddressWord(tokenOut) \o UintWord("0bb8")
    \o AddressWord(SampleRecipient) \o UintWord("03e8") \o UintWord("0000")
    \o UintWord("0000")

(* What may follow the selector: nothing, a few bytes, the encoded tuple,
   the tuple cut after six words, the tuple with a tokenOut word wider
   than an address. *)
SampleArguments ==
  {"", "00"}
    \cup {EncodedParams(i, o) : i \in SampleTokens, o \in SampleTokens}
    \cup {SubSeq(EncodedParams(i, i), 1, 6 * 64) : i \in SampleTokens}
    \cup {AddressWord(i) \o "ff" \o SubSeq(EncodedParams(i, i), 67, 7 * 64) :
            i \in SampleTokens}

SampleSelectors ==
  DOMAIN SWAP_SELECTORS
    \cup {"0xa9059cbb", "0x095ea7b3"}
    \cup {"0x04E45AAF", "0x3593564C", "0xA9059CBB"}

SampleData ==
  {"", "0x", "0x04e45a"}
    \cup {sel \o args : sel \in SampleSelectors, args \in SampleArguments}

SampleDestinations ==
  KNOWN_ROUTERS
    \cup {"", "0x3fC91A3afd70395Cd496C647d5a6CC9D4B2b7FAD",
          "0x4200000000000000000000000000000000000006"}

SwapTxs == [data : SampleData, to : SampleDestinations]

(* iface.decodeFunctionData("exactInputSingle", data): throws (ok = FALSE)
   when the words run out or an address word is wider than 20 bytes. *)
decodeFunctionData(data) ==
  LET args == SubSeq(data, 11, Len(data))
      word(i) == SubSeq(args, 64 * (i - 1) + 1, 64 * i)
      isAddress(w) == SubSeq(w, 1, 24) = Zero24
  IN IF \/ Len(args) < 7 * 64
        \/ ~isAddress(word(1))
        \/ ~isAddress(word(2))
        \/ ~isAddress(word(4))
     THEN [ok |-> FALSE, tokenIn |-> Absent, tokenOut |-> Absent,
           amountIn |-> Absent]
     ELSE [ok |-> TRUE,
           tokenIn |-> "0x" \o SubSeq(word(1), 25, 64),
           tokenOut |-> "0x" \o SubSeq(word(2), 25, 64),
           amountIn |-> word(5)]

NotASwap == [NotCalled EXCEPT !.called = TRUE]

SwapOf(protocol, selector) ==
  [NotASwap EXCEPT !.isSwap = TRUE, !.protocol = protocol,
                   !.selector = selector]

Rethrown(protocol, selector) == [NotASwap EXCEPT !.threw = TRUE]

(* catch { return { isSwap: true, protocol, selector } } *)
Caught(protocol, selector) == SwapOf(protocol, selector)

KnownRouterAsWritten(to) == to # "" /\ to \in KNOWN_ROUTERS

(* tx.to && KNOWN_ROUTERS.has(tx.to.toLowerCase()) *)
KnownRouter(to) == to # "" /\ toLowerCase(to) \in KNOWN_ROUTERS

decodeSwap(tx) ==
  IF tx.data = "" \/ Len(tx.data) < 10
  THEN NotASwap
  ELSE LET selector == toLowerCase(slice(tx.data, 10)) IN
       IF selector \in DOMAIN SWAP_SELECTORS
       THEN LET protocol == SWAP_SELECTORS[selector] IN
            IF selector = ExactInputSingle
            THEN LET decoded == decodeFunctionData(tx.data) IN
                 IF decoded.ok
                 THEN [SwapOf(protocol, selector) EXCEPT
                         !.tokenIn = decoded.tokenIn,
                         !.tokenOut = decoded.tokenOut,
                         !.amountIn = decoded.amountIn]
                 ELSE Caught(protocol, selector)
            ELSE SwapOf(protocol, selector)
       ELSE IF KnownRouter(tx.to)
            THEN SwapOf("Known Router", selector)
            ELSE NotASwap

(* handlePendingTx calls decodeSwap on the transaction it was given. *)
DecodeSwap ==
  /\ ~swapInfo.called
  /\ swapInfo' = decodeSwap(swapTx)
  /\ UNCHANGED <<now, processedTxs, lastTrade, pipelineVars, nonceVars,
                 indexTasks, resolverVars, swapTx, wsVars, pollVars,
                 blockVars, pureVars>>

InitDecoder ==
  /\ PipelineIdle
  /\ NonceIdle
  /\ indexTasks = <<>>
  /\ ResolverIdle
  /\ WsIdle
  /\ PollIdle
  /\ BlocksIdle
  /\ PureIdle
  /\ swapTx \in SwapTxs
  /\ swapInfo = NotCalled

NextDecoder == DecodeSwap

SpecDecoder == InitDecoder /\ [][NextDecoder]_vars

(* The first ten characters of the calldata, lower-cased, when it has them *)
InputSelector == toLowerCase(slice(swapTx.data, 10))

HasSelector == Len(swapTx.data) >= 10

InAllowList == swapTx.to # "" /\ toLowerCase(swapTx.to) \in KNOWN_ROUTERS

(* C17: decodeSwap returns a SwapInfo and does not throw, whatever the
   calldata string is (empty, shorter than a selector, a selector followed
   by malformed arguments), and it returns isSwap = false whenever the
   selector is not in the table and the destination is not a known
   router. *)
C17_ClassificationTotal ==
  swapInfo.called =>
    /\ ~swapInfo.threw
    /\ swapInfo.isSwap \in BOOLEAN
    /\ ( /\ ~(HasSelector /\ InputSelector \in DOMAIN SWAP_SELECTORS)
         /\ ~InAllowList )
         => /\ ~swapInfo.isSwap
            /\ swapInfo.tokenIn = Absent
            /\ swapInfo.tokenOut = Absent

(* decodeSwap returned for exactInputSingle followed by arguments that do
   not decode. *)
C17_Witness ==
  /\ swapInfo.called
  /\ HasSelector
  /\ InputSelector = ExactInputSingle
  /\ Len(swapTx.data) > 10
  /\ ~decodeFunctionData(swapTx.data).ok
  /\ ~swapInfo.threw

(* C18: decodeSwap returns isSwap = true without tokenOut for an unknown
   selector sent to a known router, for a table selector other than
   exactInputSingle, and for exactInputSingle whose arguments do not
   decode; tokenIn and tokenOut are set only for exactInputSingle whose
   arguments decode, to the addresses of the first two words. *)
C18_SwapClassification ==
  swapInfo.called =>
    LET known == HasSelector /\ InputSelector \in DOMAIN SWAP_SELECTORS
        single == HasSelector /\ InputSelector = ExactInputSingle
        decodes == single /\ decodeFunctionData(swapTx.data).ok
    IN /\ (HasSelector /\ ~known /\ InAllowList)
            => swapInfo.isSwap /\ swapInfo.tokenOut = Absent
       /\ (known /\ ~single)
            => swapInfo.isSwap /\ swapInfo.tokenOut = Absent
       /\ (single /\ ~decodes)
            => swapInfo.isSwap /\ swapInfo.tokenOut = Absent
       /\ (swapInfo.tokenIn # Absent \/ swapInfo.tokenOut # Absent)
            => decodes
       /\ decodes
            => /\ swapInfo.isSwap
               /\ swapInfo.tokenIn = "0x" \o SubSeq(swapTx.data, 35, 74)
               /\ swapInfo.tokenOut = "0x" \o SubSeq(swapTx.data, 99, 138)

(* An unknown selector sent to a known router whose address is written in
   mixed case was classified as a swap without tokens. *)
C18_Witness ==
  /\ swapInfo.called
  /\ HasSelector
  /\ InputSelector \notin DOMAIN SWAP_SELECTORS
  /\ swapTx.to \notin KNOWN_ROUTERS
  /\ InAllowList
  /\ swapInfo.isSwap
  /\ swapInfo.tokenOut = Absent

---------------------------------------------------------------------------
(* connectWS of part_000: sockets, reconnection, heartbeat *)

WsTickMs == RECONNECT_MS \div 2

SocketIds == 1..MaxSockets

(* The module variable ws: the socket the last connectWS created. *)
CurrentWs == Len(sockets)

(* connectWS(): a new socket with its handlers and its heartbeat interval.
   `after` is the socket whose close scheduled the call, 0 for the call of
   startMonitor; `waitedMs` is the time the timer took. *)
ConnectedWS(after, waitedMs) ==
  /\ sockets' = Append(sockets,
       [state |-> "connecting", opened |-> FALSE, subscribed |-> FALSE,
        after |-> after, waitedMs |-> waitedMs])
  /\ heartbeats' = heartbeats \cup {Len(sockets) + 1}

WsUnchanged ==
  UNCHANGED <<now, processedTxs, lastTrade, pipelineVars, nonceVars,
              indexTasks, resolverVars, decoderVars, pollVars, blockVars,
              pureVars>>

StartMonitor ==
  /\ sockets = <<>>
  /\ ConnectedWS(0, 0)
  /\ UNCHANGED timers
  /\ WsUnchanged

(* ws.on("open"): eth_subscribe is sent. *)
WsOpen(k) ==
  /\ k <= Len(sockets)
  /\ sockets[k].state = "connecting"
  /\ sockets' = [sockets EXCEPT ![k].state = "open", ![k].opened = TRUE]
  /\ UNCHANGED <<timers, heartbeats>>
  /\ WsUnchanged

(* The answer to eth_subscribe: blockSubId is set. *)
WsSubscribed(k) ==
  /\ k <= Len(sockets)
  /\ sockets[k].state = "open"
  /\ ~sockets[k].subscribed
  /\ sockets' = [sockets EXCEPT ![k].subscribed = TRUE]
  /\ UNCHANGED <<timers, heartbeats>>
  /\ WsUnchanged

(* ws.on("error"): the handler logs.  The socket emits close next. *)
WsError(k) ==
  /\ k <= Len(sockets)
  /\ Len(sockets) < MaxSockets
  /\ sockets[k].state \in {"connecting", "open"}
  /\ sockets' = [sockets EXCEPT ![k].state = "errored"]
  /\ UNCHANGED <<timers, heartbeats>>
  /\ WsUnchanged

NoReconnect(pending, k) == pending

(* setTimeout(connectWS, 3000) *)
ReconnectTimers(pending, k) ==
  pending \cup {[socket |-> k, remaining |-> RECONNECT_MS]}

(* ws.on("close") *)
WsClose(k) ==
  /\ k <= Len(sockets)
  /\ \/ sockets[k].state = "errored"
     \/ sockets[k].state \in {"connecting", "open"} /\ Len(sockets) < MaxSockets
  /\ sockets' = [sockets EXCEPT ![k].state = "closed"]
  /\ timers' = ReconnectTimers(timers, k)
  /\ UNCHANGED heartbeats
  /\ WsUnchanged

WsCloseAfterError ==
  \E k \in SocketIds :
    k <= Len(sockets) /\ sockets[k].state = "errored" /\ WsClose(k)

(* Time passes while a reconnection timer is pending. *)
WsTimePasses ==
  /\ \E t \in timers : t.remaining > 0
  /\ timers' = {[t EXCEPT !.remaining = IF @ > WsTickMs THEN @ - WsTickMs ELSE 0] :
                  t \in timers}
  /\ UNCHANGED <<sockets, heartbeats>>
  /\ WsUnchanged

(* The timer callback: connectWS. *)
TimerFired ==
  \E t \in timers :
    /\ t.remaining = 0
    /\ timers' = timers \ {t}
    /\ ConnectedWS(t.socket, RECONNECT_MS - t.remaining)
    /\ WsUnchanged

(* The heartbeat interval of the k-th connectWS call: it pings ws when ws
   is open and clears itself otherwise. *)
Heartbeat(k) ==
  /\ k \in heartbeats
  /\ heartbeats' = IF sockets[CurrentWs].state = "open"
                   THEN heartbeats ELSE heartbeats \ {k}
  /\ UNCHANGED <<sockets, timers>>
  /\ WsUnchanged

InitWs ==
  /\ PipelineIdle
  /\ NonceIdle
  /\ indexTasks = <<>>
  /\ SideIdle

NextWs ==
  \/ StartMonitor
  \/ \E k \in SocketIds : WsOpen(k)
  \/ \E k \in SocketIds : WsSubscribed(k)
  \/ \E k \in SocketIds : WsError(k)
  \/ \E k \in SocketIds : WsClose(k)
  \/ WsTimePasses
  \/ TimerFired
  \/ \E k \in SocketIds : Heartbeat(k)

SpecWs ==
  /\ InitWs
  /\ [][NextWs]_vars
  /\ WF_vars(StartMonitor)
  /\ WF_vars(WsCloseAfterError)
  /\ WF_vars(WsTimePasses)
  /\ WF_vars(TimerFired)

(* setInterval keeps calling the heartbeat callback: a tick that would
   clear the interval is eventually taken. *)
SpecWsBeat ==
  /\ SpecWs
  /\ \A k \in SocketIds : WF_vars(Heartbeat(k))

(* C38: at most one keep-alive interval is active in every reachable state,
   and the interval created by a connection stops once the socket of that
   connection is no longer open. *)
C38_OneHeartbeatPerConnection ==
  /\ [](Cardinality(heartbeats) <= 1)
  /\ \A k \in SocketIds :
       (k \in heartbeats /\ k <= Len(sockets) /\ sockets[k].state # "open"
          /\ sockets[k].state # "connecting")
         ~> (k \notin heartbeats)

Down(k) == k <= Len(sockets) /\ sockets[k].state \in {"errored", "closed"}

Successors(k) == {j \in DOMAIN sockets : sockets[j].after = k}

TimersOf(k) == {t \in timers : t.socket = k}

OneReconnectionPerClose ==
  \A k \in DOMAIN sockets :
    /\ Cardinality(TimersOf(k)) + Cardinality(Successors(k))
         = (IF sockets[k].state = "closed" THEN 1 ELSE 0)
    /\ sockets[k].after # 0
         => /\ sockets[k].waitedMs = RECONNECT_MS
            /\ sockets[sockets[k].after].state = "closed"

(* C19: after every close or error of a socket connectWS is eventually
   called again, once the 3000 ms timer has run out, however many sockets
   in a row failed before; each closed socket has exactly one
   reconnection, pending or made. *)
C19_ReconnectionLiveness ==
  /\ []OneReconnectionPerClose
  /\ \A k \in 1..(MaxSockets - 1) : Down(k) ~> (Successors(k) # {})

(* Two sockets in a row went down, the second before it ever opened after
   an error, and the third was created by the second one's timer. *)
C19_Witness ==
  /\ Len(sockets) = 3
  /\ sockets[1].opened
  /\ ~sockets[2].opened
  /\ sockets[2].state = "closed"
  /\ sockets[3].after = 2
  /\ sockets[3].waitedMs = RECONNECT_MS

---------------------------------------------------------------------------
(* resolveTokenOut of part_000 (lines 108-141), one step per await, called
   from the timer handlePendingTx sets for a swap without tokenOut. *)
MaxLogs == 3
MaxAttempts == 10
POLL_WAIT_MS == 2000

PollTx == [hash |-> "d", from |-> "w1"]

LogKinds ==
  { WithdrawalLog,
    TransferLog("T1", Pool, "w1"),
    TransferLog("T2", Pool, "w1"),
    TransferLog(WETH, Pool, "w1"),
    TransferLog("T1", "w1", Pool) }

PollReceipts == UNION { [1..n -> LogKinds] : n \in 0..MaxLogs }

PollUnchanged ==
  UNCHANGED <<now, lastTrade, pipelineVars, nonceVars, indexTasks,
              resolverVars, decoderVars, wsVars, blockVars, pureVars>>

(* handlePendingTx, lines 257-290, for a swap whose tokenOut is not decoded:
   the hash is recorded and the timer is set; a hash already recorded
   returns at line 258. *)
PollHandlePendingTx ==
  /\ poll.deliveries < MaxDeliveries
  /\ IF PollTx.hash \in processedTxs
     THEN /\ poll' = [poll EXCEPT !.deliveries = @ + 1]
          /\ UNCHANGED processedTxs
     ELSE /\ processedTxs' = processedTxs \cup {PollTx.hash}
          /\ poll' = [poll EXCEPT !.deliveries = @ + 1, !.pc = "timer"]
  /\ PollUnchanged

(* setTimeout(async () => { ... }, 3000) fires: resolveTokenOut starts *)
PollTimerFired ==
  /\ poll.pc = "timer"
  /\ poll' = [poll EXCEPT !.pc = "fetch"]
  /\ UNCHANGED processedTxs
  /\ PollUnchanged

(* await httpProvider.getTransactionReceipt(txHash) settles: with the
   receipt (the scan of lines 120-140 follows in the same turn, and the
   callback calls handleSwap when a token came back), with null, or with a
   rejection that the callback's catch logs. *)
GetTransactionReceipt(outcome, receipt) ==
  /\ poll.pc = "fetch"
  /\ outcome # "receipt" => receipt = <<>>
  /\ poll' =
       CASE outcome = "receipt" ->
              LET tok == resolveTokenOut(receipt, PollTx.from)
              IN [poll EXCEPT !.fetches = @ + 1, !.pc = "returned",
                              !.receipt = receipt, !.found = TRUE,
                              !.ret = tok,
                              !.calls = IF tok = NoToken THEN @
                                        ELSE Append(@, "handleSwap")]
         [] outcome = "null" ->
              [poll EXCEPT !.fetches = @ + 1, !.pc = "sleep"]
         [] OTHER ->
              [poll EXCEPT !.fetches = @ + 1, !.pc = "threw"]
  /\ UNCHANGED processedTxs
  /\ PollUnchanged

PollForever(attempt) == TRUE

(* for (let attempt = 0; attempt < 10; attempt++) *)
PollAgain(attempt) == attempt < MaxAttempts

(* await new Promise(r => setTimeout(r, 2000)) settles; attempt++; the loop
   goes on or ends with receipt still null, and line 117 returns null. *)
PollSleep ==
  /\ poll.pc = "sleep"
  /\ poll' = IF PollAgain(poll.attempt + 1)
             THEN [poll EXCEPT !.attempt = @ + 1,
                               !.waitedMs = @ + POLL_WAIT_MS, !.pc = "fetch"]
             ELSE [poll EXCEPT !.attempt = @ + 1,
                               !.waitedMs = @ + POLL_WAIT_MS,
                               !.pc = "returned", !.ret = NoToken]
  /\ UNCHANGED processedTxs
  /\ PollUnchanged

InitResolve ==
  /\ PipelineIdle
  /\ NonceIdle
  /\ indexTasks = <<>>
  /\ SideIdle

NextResolve ==
  \/ PollHandlePendingTx
  \/ PollTimerFired
  \/ \E outcome \in {"receipt", "null", "throws"}, receipt \in PollReceipts :
       GetTransactionReceipt(outcome, receipt)
  \/ PollSleep

SpecResolve ==
  /\ InitResolve
  /\ [][NextResolve]_vars
  /\ WF_vars(PollTimerFired)
  /\ WF_vars(\E outcome \in {"receipt", "null", "throws"},
                receipt \in PollReceipts :
                  GetTransactionReceipt(outcome, receipt))
  /\ WF_vars(PollSleep)

(* The positions of the Transfer logs of the receipt whose receiver is w *)
TransfersTo(receipt, w) ==
  {i \in DOMAIN receipt : receipt[i].topic = "Transfer" /\ receipt[i].dst = w}

LastIn(S) == CHOOSE i \in S : \A j \in S : j <= i

PollOver == poll.pc \in {"returned", "threw"}

(* C24: resolveTokenOut asks for the receipt at most 10 times, waits 2 s
   after each miss, and always ends; when the 10 attempts all missed it
   returns no token, the handler does nothing, and a later delivery of the
   same transaction starts no new resolution. *)
C24_BoundedReceiptPolling ==
  /\ [](/\ poll.fetches <= MaxAttempts
        /\ poll.waitedMs = POLL_WAIT_MS * poll.attempt
        /\ poll.attempt <= poll.fetches
        /\ (PollOver /\ ~poll.found)
             => (poll.calls = <<>> /\ poll.ret \in {NoToken, Absent}))
  /\ [][PollOver => (PollOver' /\ poll'.fetches = poll.fetches
                               /\ poll'.calls = poll.calls)]_vars
  /\ (poll.pc = "timer" ~> PollOver)

(* All 10 attempts missed, 20 s were waited, no token came back, and the
   transaction was delivered a second time afterwards. *)
C24_Witness ==
  /\ poll.pc = "returned"
  /\ ~poll.found
  /\ poll.fetches = MaxAttempts
  /\ poll.waitedMs = MaxAttempts * POLL_WAIT_MS
  /\ poll.ret = NoToken
  /\ poll.deliveries = 2

(* C25: a token that the scan of Transfer logs returns (no Withdrawal log
   of the WETH contract in the receipt) is never the WETH address. *)
C25_WethTransfersExcluded ==
  (poll.pc = "returned" /\ poll.found /\ ~HasWithdrawal(poll.receipt))
    => poll.ret # WETH

(* C26: when the scan of Transfer logs is reached and the receipt holds
   Transfer logs whose receiver is the wallet, the address returned is the
   emitting contract of the last of them in log order. *)
C26_LastTransferWins ==
  (/\ poll.pc = "returned" /\ poll.found
   /\ ~HasWithdrawal(poll.receipt)
   /\ TransfersTo(poll.receipt, PollTx.from) # {})
    => poll.ret =
         poll.receipt[LastIn(TransfersTo(poll.receipt, PollTx.from))].address

(* Two Transfer logs to the wallet from different contracts, followed by a
   Transfer log that leaves the wallet: the second contract came back. *)
C26_Witness ==
  /\ poll.pc = "returned" /\ poll.found
  /\ poll.receipt = <<TransferLog("T1", Pool, "w1"),
                      TransferLog("T2", Pool, "w1"),
                      TransferLog("T1", "w1", Pool)>>
  /\ poll.ret = "T2"
  /\ poll.calls = <<"handleSwap">>

---------------------------------------------------------------------------
(* ws.on("message") of connectWS, part_000 lines 311-355 *)
MaxBlocks == 3

(* The transactions of the k-th block notified, in block order: one of each
   target wallet with one of another sender between them. *)
BlockTxsOf(k) ==
  << [hash |-> <<k, 1>>, from |-> "w1"],
     [hash |-> <<k, 2>>, from |-> "other"],
     [hash |-> <<k, 3>>, from |-> "w2"] >>

BlocksUnchanged ==
  UNCHANGED <<now, lastTrade, pipelineVars, nonceVars, indexTasks,
              resolverVars, decoderVars, wsVars, pollVars, pureVars>>

(* msg.id === 1 && msg.result: blockSubId is set *)
BlockSubscribed ==
  /\ ~feed.active
  /\ feed' = [feed EXCEPT !.active = TRUE]
  /\ UNCHANGED <<inflight, dispatched, processedTxs>>
  /\ BlocksUnchanged

(* A newHeads notification of the subscription: the handler runs up to
   await fetch(...) *)
BlockNotification ==
  /\ feed.active
  /\ Len(inflight) < MaxBlocks
  /\ inflight' = Append(inflight, [block |-> Len(inflight) + 1,
                                   state |-> "fetching",
                                   loggedBefore |-> feed.logged])
  /\ UNCHANGED <<dispatched, feed, processedTxs>>
  /\ BlocksUnchanged

UncaughtBlockError(f) == [f EXCEPT !.active = FALSE]

(* catch (err) { logger.error(...) } *)
CaughtBlockError(f) == [f EXCEPT !.logged = @ + 1]

(* await fetch(...) settles: with a response, or with a rejection that the
   catch of line 352 logs *)
FetchSettled(k, ok) ==
  /\ k \in DOMAIN inflight
  /\ inflight[k].state = "fetching"
  /\ IF ok
     THEN /\ inflight' = [inflight EXCEPT ![k].state = "parsing"]
          /\ UNCHANGED feed
     ELSE /\ inflight' = [inflight EXCEPT ![k].state = "failed"]
          /\ feed' = CaughtBlockError(feed)
  /\ UNCHANGED <<dispatched, processedTxs>>
  /\ BlocksUnchanged

(* The transactions of the block that the loop of lines 339-351 hands to
   handlePendingTx *)
TargetTxs(k) ==
  SelectSeq([i \in 1..Len(BlockTxsOf(k)) |->
               [block |-> k, idx |-> i, hash |-> BlockTxsOf(k)[i].hash,
                from |-> BlockTxsOf(k)[i].from]],
            LAMBDA tx : tx.from \in TARGET_WALLETS)

(* await rpcRes.json() settles: with the block, whose transactions of
   target wallets are handed to handlePendingTx one after the other (each
   call runs to its first await and records the hash, line 274); with a
   body that has no result, so that txs is []; or with a rejection that the
   catch logs. *)
JsonSettled(k, outcome) ==
  /\ k \in DOMAIN inflight
  /\ inflight[k].state = "parsing"
  /\ CASE outcome = "block" ->
            /\ inflight' = [inflight EXCEPT ![k].state = "dispatched"]
            /\ dispatched' = dispatched \o TargetTxs(k)
            /\ processedTxs' =
                 processedTxs \cup {tx.hash : tx \in Range(TargetTxs(k))}
            /\ UNCHANGED feed
       [] outcome = "noResult" ->
            /\ inflight' = [inflight EXCEPT ![k].state = "empty"]
            /\ UNCHANGED <<dispatched, processedTxs, feed>>
       [] OTHER ->
            /\ inflight' = [inflight EXCEPT ![k].state = "failed"]
            /\ feed' = CaughtBlockError(feed)
            /\ UNCHANGED <<dispatched, processedTxs>>
  /\ BlocksUnchanged

InitBlocks ==
  /\ PipelineIdle
  /\ NonceIdle
  /\ indexTasks = <<>>
  /\ SideIdle

NextBlocks ==
  \/ BlockSubscribed
  \/ BlockNotification
  \/ \E k \in 1..MaxBlocks, ok \in BOOLEAN : FetchSettled(k, ok)
  \/ \E k \in 1..MaxBlocks, outcome \in {"block", "noResult", "throws"} :
       JsonSettled(k, outcome)

SpecBlocks == InitBlocks /\ [][NextBlocks]_vars

(* C27: handlePendingTx is called in block order: in transaction order
   within one block, and every transaction of a block notified earlier
   before any transaction of a block notified later. *)
C27_BlockOrder ==
  \A i, j \in DOMAIN dispatched :
    i < j => \/ dispatched[i].block < dispatched[j].block
             \/ /\ dispatched[i].block = dispatched[j].block
                /\ dispatched[i].idx < dispatched[j].idx

FailedNow(k) ==
  /\ k \in DOMAIN inflight
  /\ inflight[k].state \in {"fetching", "parsing"}
  /\ inflight'[k].state = "failed"

(* C30: when the fetch or the parse of a block fails, the error is logged,
   no transaction of the block is handed to handlePendingTx then or later,
   the subscription stays as it was, and the set of handled hashes, the
   cooldown stamps and the ledger are unchanged by the failure. *)
C30_BlockFetchFailureContained ==
  /\ [](\A k \in DOMAIN inflight :
          inflight[k].state = "failed"
            => /\ feed.active
               /\ feed.logged >= 1
               /\ \A i \in DOMAIN dispatched : dispatched[i].block # k)
  /\ [][\A k \in 1..MaxBlocks :
          FailedNow(k)
            => /\ feed'.logged = feed.logged + 1
               /\ feed'.active = feed.active
               /\ dispatched' = dispatched
               /\ UNCHANGED <<processedTxs, lastTrade, openPositions, file>>
               /\ \A m \in DOMAIN inflight :
                    m # k => inflight'[m] = inflight[m]]_vars

(* The first block failed, and the second, notified after the failure was
   logged, had its two target-wallet transactions handed over. *)
C30_Witness ==
  /\ Len(inflight) >= 2
  /\ inflight[1].state = "failed"
  /\ inflight[2].loggedBefore = 1
  /\ inflight[2].state = "dispatched"
  /\ Len(dispatched) = 2
  /\ processedTxs = {<<2, 1>>, <<2, 3>>}

---------------------------------------------------------------------------
(* loadPositions and savePositions of part_000 (lines 45-74) as functions
   of the file.  A file is missing, unreadable (readFileSync throws), not
   JSON (JSON.parse throws), JSON that is not an object of lists (the loop
   of lines 52-54 throws), or an object of wallet -> list of tokens. *)
MaxListLen == 2

TokenLists(n) == UNION { [1..k -> Tokens] : k \in 0..n }

DiskDocs ==
  UNION { [ws -> TokenLists(MaxListLen)] : ws \in SUBSET TARGET_WALLETS }

DiskFiles ==
  { [kind |-> k, doc |-> <<>>] :
      k \in {"missing", "unreadable", "notJson", "notObject"} }
  \cup { [kind |-> "ok", doc |-> d] : d \in DiskDocs }

(* The in-memory ledgers: Map<string, Set<string>> *)
MemLedgers ==
  UNION { [ws -> {s \in TokenLists(Cardinality(Tokens)) : Dedup(s) = s}] :
            ws \in SUBSET TARGET_WALLETS }

NotLoaded == [called |-> FALSE, threw |-> FALSE, map |-> <<>>]

LoadRethrown(kind) == [called |-> TRUE, threw |-> TRUE, map |-> <<>>]

(* catch { logger.warn(...); return new Map(); } *)
LoadCaught(kind) == [called |-> TRUE, threw |-> FALSE, map |-> <<>>]

(* loadPositions with every outcome of its try block *)
loadPositionsFile(f) ==
  IF f.kind = "missing"
  THEN [called |-> TRUE, threw |-> FALSE, map |-> <<>>]
  ELSE IF f.kind # "ok"
  THEN LoadCaught(f.kind)
  ELSE [called |-> TRUE, threw |-> FALSE,
        map |-> [w \in DOMAIN f.doc |-> Dedup(f.doc[w])]]

DiskUnchanged ==
  UNCHANGED <<now, processedTxs, lastTrade, pipelineVars, nonceVars,
              indexTasks, resolverVars, decoderVars, wsVars, pollVars,
              blockVars, calc>>

(* savePositions(disk.map), the write succeeding *)
DiskSavePositions ==
  /\ ~disk.saved
  /\ ~disk.ret.called
  /\ disk' = [disk EXCEPT !.file = [kind |-> "ok",
                                    doc |-> savePositions(disk.map)],
                          !.saved = TRUE]
  /\ DiskUnchanged

(* loadPositions() on the file as it is *)
DiskLoadPositions ==
  /\ ~disk.ret.called
  /\ disk' = [disk EXCEPT !.ret = loadPositionsFile(disk.file)]
  /\ DiskUnchanged

InitDisk ==
  /\ PipelineIdle
  /\ NonceIdle
  /\ indexTasks = <<>>
  /\ ResolverIdle /\ DecoderIdle /\ WsIdle /\ PollIdle /\ BlocksIdle
  /\ calc = <<>>
  /\ disk \in [file : DiskFiles, map : MemLedgers, ret : {NotLoaded},
               saved : {FALSE}]

NextDisk == DiskSavePositions \/ DiskLoadPositions

SpecDisk == InitDisk /\ [][NextDisk]_vars

(* The (wallet, token) pairs of a ledger or of a file's object *)
Pairs(m) == UNION { {<<w, t>> : t \in Range(m[w])} : w \in DOMAIN m }

(* C31: loadPositions never throws; for a file that is missing, unreadable
   or not valid JSON it returns the empty ledger, and otherwise the
   wallet-to-tokens mapping the file holds. *)
C31_LoadNonFatal ==
  disk.ret.called =>
    /\ ~disk.ret.threw
    /\ disk.file.kind # "ok" => disk.ret.map = <<>>
    /\ disk.file.kind = "ok"
         => /\ DOMAIN disk.ret.map = DOMAIN disk.file.doc
            /\ Pairs(disk.ret.map) = Pairs(disk.file.doc)

(* A file that is not JSON was loaded as the empty ledger. *)
C31_Witness ==
  /\ disk.ret.called
  /\ disk.file.kind = "notJson"
  /\ disk.ret = [called |-> TRUE, threw |-> FALSE, map |-> <<>>]

(* C40: loadPositions of the file savePositions(m) wrote returns the
   (wallet, token) pairs of m, none added and none lost; a wallet whose
   set is empty is left out of the file and is absent after the reload. *)
C40_SaveLoadRoundTrip ==
  (disk.saved /\ disk.ret.called) =>
    /\ ~disk.ret.threw
    /\ Pairs(disk.ret.map) = Pairs(disk.map)
    /\ \A w \in DOMAIN disk.map :
         disk.map[w] = <<>>
           => (w \notin DOMAIN disk.file.doc /\ w \notin DOMAIN disk.ret.map)

(* A ledger with two tokens for w1 and an empty set for w2 went through
   the file: w1 came back with both, w2 is absent. *)
C40_Witness ==
  /\ disk.saved /\ disk.ret.called
  /\ disk.map = [w \in TARGET_WALLETS |->
                   IF w = "w1" THEN <<"T2", "T1">> ELSE <<>>]
  /\ DOMAIN disk.ret.map = {"w1"}
  /\ Range(disk.ret.map["w1"]) = {"T1", "T2"}

---------------------------------------------------------------------------
(* The sizing arithmetic of the buy and the sell path, on bounded inputs.
   Native amounts that went through toFixed(8) are counted in 1e-8 ETH. *)

MaxBalance == 5

Fixed8PerEth == 100000000

(* (num / den).toFixed(8), in 1e-8: the nearest multiple, ties upwards *)
toFixed8(num, den) == (2 * num * Fixed8PerEth + den) \div (2 * den)

(* Math.floor(fraction * 1_000_000) for the fraction num / den *)
floorPpm(num, den) == (num * PpmScale) \div den

(* Live prices getEthPrice may return, in USD *)
LivePrices == {1500, 1800, 1904, 1905, 2000, 2500, 3000, 4000}

NativeBalances ==
  {RequiredUnits - 1, RequiredUnits, RequiredUnits + 10, 2 * RequiredUnits}

(* Fractions in (0, 1] a caller of executeCopySell may pass *)
Fractions ==
  { [num |-> 1, den |-> 10000000], [num |-> 1, den |-> 3],
    [num |-> 1, den |-> 2], [num |-> 3, den |-> 4], [num |-> 1, den |-> 1] }

BuyInputs ==
  [fn : {"buy"}, pc : {"input"}, balance : NativeBalances, price : LivePrices,
   num : {0}, den : {1}, passed : {FALSE}, amount : {0}, status : {"none"}]

SellInputs ==
  { [fn |-> "sell", pc |-> "input", balance |-> b, price |-> 2000,
     num |-> f.num, den |-> f.den, passed |-> FALSE, amount |-> 0,
     status |-> "none"] : b \in 0..MaxBalance, f \in Fractions }

CalcUnchanged ==
  UNCHANGED <<now, processedTxs, lastTrade, pipelineVars, nonceVars,
              indexTasks, resolverVars, decoderVars, wsVars, pollVars,
              blockVars, disk>>

(* handleSwap's balance guard, then the sizing of executeCopyTrade with
   the price getEthPrice returned *)
CalcCopyTrade ==
  /\ calc.fn = "buy" /\ calc.pc = "input"
  /\ calc' = IF BalanceInsufficient(calc.balance)
             THEN [calc EXCEPT !.pc = "done", !.status = "aborted"]
             ELSE [calc EXCEPT !.pc = "done", !.passed = TRUE,
                               !.status = "quoted",
                               !.amount = toFixed8(TRADE_AMOUNT_USD, calc.price)]
  /\ CalcUnchanged

(* executeCopySell up to the retry loop: balanceOf, the two zero checks,
   the sizing by the fraction *)
CalcCopySell ==
  /\ calc.fn = "sell" /\ calc.pc = "input"
  /\ LET totalBalance == calc.balance
         sellBalance == SellBalance(totalBalance, floorPpm(calc.num, calc.den))
     IN calc' = IF totalBalance = 0 \/ sellBalance = 0
                THEN [calc EXCEPT !.pc = "done", !.status = "skipped"]
                ELSE [calc EXCEPT !.pc = "done", !.status = "attempted",
                                  !.amount = sellBalance]
  /\ CalcUnchanged

InitCalc ==
  /\ PipelineIdle
  /\ NonceIdle
  /\ indexTasks = <<>>
  /\ ResolverIdle /\ DecoderIdle /\ WsIdle /\ PollIdle /\ BlocksIdle
  /\ disk = <<>>
  /\ calc \in BuyInputs \cup SellInputs

NextCalc == CalcCopyTrade \/ CalcCopySell

SpecCalc == InitCalc /\ [][NextCalc]_vars

(* C36: whenever the balance guard lets a buy proceed, the native balance
   of the managed account is at least the sell amount executeCopyTrade
   quotes and submits, for every live price. *)
C36_GuardCoversSubmittedAmount ==
  (calc.fn = "buy" /\ calc.pc = "done" /\ calc.passed)
    => calc.balance * (Fixed8PerEth \div UnitsPerEth) >= calc.amount

(* C39: executeCopySell returns skipped only when the token balance is
   zero; for a nonzero balance and a fraction in (0, 1] it attempts a sell
   of a nonzero amount. *)
C39_SkippedMeansZeroBalance ==
  (calc.fn = "sell" /\ calc.pc = "done")
    => /\ calc.status = "skipped" => calc.balance = 0
       /\ calc.balance > 0 => calc.status = "attempted" /\ calc.amount > 0

====
